---------------------------- MODULE Spec2Model ----------------------------
(* A model of the realtime core of rust-audio-engine: the audio callback   *)
(* (realtime/processor.rs), the per-block graph scheduler                  *)
(* (realtime/dsp_graph.rs) and the collaborators they drive (buffer pool,  *)
(* graph, topological sort, garbage-collector channel).                    *)
EXTENDS Integers, Sequences, FiniteSets, TLC

VARIABLES
    \* ---- Processor (realtime/processor.rs) ----
    started,                \* Processor.started
    sample_position,        \* Processor.sample_position
    command_rx,             \* the command channel, control -> audio (FIFO)
    notification_tx,        \* the notification channel, audio -> control
    position_counter,       \* PeriodicNotification: samples since the last notification
    \* ---- DspGraph (realtime/dsp_graph.rs) ----
    graph_nodes,            \* DspGraph.graph: the ids of the nodes held
    graph_edges,            \* DspGraph.graph: the edges, <<source, destination>>
    topological_sort,       \* DspGraph.topological_sort: the cached order
    output_endpoint,        \* DspGraph.output_endpoint: << >> (None) or <<id>>
    garbage_collection_tx,  \* the garbage-collector channel, audio -> janitor
    graph_needs_sort,       \* DspGraph.graph_needs_sort
    buffer_pool,            \* DspGraph.buffer_pool
    dsp_parameters,         \* per node of the graph: its parameter timeline
    \* ---- the audio thread's position and locals ----
    pc,                     \* where the audio thread stands
    output_buffer,          \* the callback's output buffer
    offset,                 \* process_graph: the chunk's first frame
    num_frames,             \* DspGraph.process: the clipped frame count
    num_channels,           \* DspGraph.process: the clipped channel count
    sort_index,             \* process_dsps: the next position of the sorted order
    \* ---- the control thread ----
    next_id,                \* Id::generate's counter as seen by node construction
    \* ---- observation (history) ----
    processed,              \* the nodes process_dsp ran for in this block, in order
    node_inputs,            \* per processed node: the input buffer it was handed
    node_outputs,           \* per processed node: the output buffer it returned
    entry_output,           \* the output buffer as DspGraph.process received it
    sent_count,             \* commands the control thread has enqueued
    applied_count,          \* commands the audio thread has applied
    last_applied,           \* the command applied last: when sent, when applied
    callback_count,         \* callbacks begun
    drained_in_callback,    \* sequence numbers applied in the current callback
    rendered_in_callback,   \* process_dsp steps taken in the current callback
    entry_position,         \* sample_position when the callback began
    entry_notifications,    \* notifications sent before the callback began
    frames_since_start,     \* frames rendered since the transport last went
                            \* from stopped to started
    replaced_endpoint,      \* the output endpoint the last ConnectToOutput replaced
    drained_commands,       \* the commands process_commands applied, with the
                            \* callback it applied them in (kept by SpecStopped)
    chunks,                 \* process_graph: the slices of this callback handed
                            \* to DspGraph::process, with the time handed along
    \* ---- SamplerDspProcess (dsp/sampler/processor.rs) ----
    voices,                 \* SamplerDspProcess.voices
    active_voice,           \* SamplerDspProcess.active_voice: << >> or <<index>>
    event_receiver,         \* the sampler's event channel, control -> audio
    pending_events,         \* SamplerDspProcess.pending_events
    sort_required,          \* read_events: new events were pushed
    start_time,             \* process_audio: the block's start time
    position,               \* process_audio: the next frame to render
    render_time,            \* process_audio: current_time, the time of that frame
    \* ---- observation of the sampler (history) ----
    segments,               \* the sub-segments rendered in this block, in order
    applied_events,         \* the events applied so far, with where and when
    events_sent,            \* events the control side has sent
    blocks_rendered,        \* blocks process_audio has returned from
    \* ---- OscillatorDspProcess (dsp/oscillator/processor.rs) ----
    phase,                  \* OscillatorDspProcess.phase, in PhaseResolution-ths
    oscillator_parameters,  \* the parameter map of the last process_audio call
    oscillator_output,      \* the output buffer as that call left it
    oscillator_blocks,      \* calls of the oscillator's process_audio
    \* ---- Id::generate (commands/id.rs) ----
    NEXT,                   \* the static AtomicUsize of Id::generate
    id_calls,               \* per thread: where its call of generate stands
    id_returned,            \* the calls that returned, in the order they did
    id_clock                \* counts the calls and returns of generate

processor_vars == <<started, sample_position, command_rx, notification_tx,
                    position_counter>>
graph_vars == <<graph_nodes, graph_edges, topological_sort, output_endpoint,
                garbage_collection_tx, graph_needs_sort, buffer_pool,
                dsp_parameters>>
audio_vars == <<pc, output_buffer, offset, num_frames, num_channels, sort_index>>
history_vars == <<processed, node_inputs, node_outputs, entry_output, sent_count,
                  applied_count, last_applied, callback_count, drained_in_callback,
                  rendered_in_callback, entry_position, entry_notifications>>
transport_history == <<frames_since_start, replaced_endpoint>>
sampler_vars == <<voices, active_voice, event_receiver, pending_events,
                  sort_required, start_time, position, render_time, segments,
                  applied_events, events_sent, blocks_rendered>>
oscillator_vars == <<phase, oscillator_parameters, oscillator_output,
                     oscillator_blocks>>
id_vars == <<NEXT, id_calls, id_returned, id_clock>>
dsp_vars == <<sampler_vars, oscillator_vars, id_vars>>
untouched_vars == <<dsp_vars, drained_commands>>
vars == <<processor_vars, graph_vars, audio_vars, next_id, history_vars,
          transport_history, chunks, untouched_vars>>

-----------------------------------------------------------------------------
(* Bounds of the model and constants of the program.                       *)

\* The node ids the control side hands out in the graph-level and
\* callback-level specifications.
Ids == {1, 2, 3}

\* processor.rs: const MAXIMUM_NUMBER_OF_FRAMES / MAXIMUM_NUMBER_OF_CHANNELS.
MAXIMUM_NUMBER_OF_FRAMES == 512
MAXIMUM_NUMBER_OF_CHANNELS == 2

\* dsp_graph.rs, DspGraph::new: BufferPool::with_capacity(128, ...).
BUFFER_POOL_CAPACITY == 128

\* dsp_graph.rs, DspGraph::new: Graph::with_capacity(512, 512).
GRAPH_NODE_CAPACITY == 512

\* How many graph commands one behaviour of SpecGraph applies.
MaxGraphCommands == 6

Min(a, b) == IF a < b THEN a ELSE b

RECURSIVE SumOver(_, _)
SumOver(f, S) ==
    IF S = {} THEN 0
    ELSE LET x == CHOOSE y \in S : TRUE IN f[x] + SumOver(f, S \ {x})

-----------------------------------------------------------------------------
(* AudioBuffer.  A buffer is its shape and its samples; the samples are    *)
(* kept sparsely, as the function from the locations <<channel, frame>>    *)
(* that hold a non-zero sample to that sample.  Every other location of    *)
(* the shape holds 0.                                                      *)

NoSamples == [l \in {} |-> 0]

OwnedAudioBuffer(frames, channels) ==
    [num_frames |-> frames, num_channels |-> channels, samples |-> NoSamples]

get_sample(buffer, location) ==
    IF location \in DOMAIN buffer.samples THEN buffer.samples[location] ELSE 0

InRange(buffer, location) ==
    /\ location[1] >= 0 /\ location[1] < buffer.num_channels
    /\ location[2] >= 0 /\ location[2] < buffer.num_frames

WithSamples(buffer, value_at, locations) ==
    [buffer EXCEPT !.samples =
        [l \in {k \in locations : value_at[k] # 0} |-> value_at[l]]]

set_sample(buffer, location, value) ==
    LET locations == DOMAIN buffer.samples \cup {location}
        value_at == [l \in locations |->
                        IF l = location THEN value ELSE buffer.samples[l]]
    IN  WithSamples(buffer, value_at, locations)

\* destination.add_from(source, (0,0), (0,0), channels, frames), the
\* destination's frame 0 being frame `at` of the buffer it is a slice of.
add_from(destination, source, at, channels, frames) ==
    LET copied == {l \in DOMAIN source.samples : l[1] < channels /\ l[2] < frames}
        shifted == {<<l[1], l[2] + at>> : l \in copied}
        locations == DOMAIN destination.samples \cup shifted
        value_at == [l \in locations |->
                        get_sample(destination, l)
                        + (IF l \in shifted
                           THEN source.samples[<<l[1], l[2] - at>>] ELSE 0)]
    IN  WithSamples(destination, value_at, locations)

\* output_buffer.clear()
clear(buffer) == [buffer EXCEPT !.samples = NoSamples]

IsZero(buffer) == DOMAIN buffer.samples = {}

-----------------------------------------------------------------------------
(* BufferPool: `available` counts the free, untagged buffers; `assigned`   *)
(* lists the buffers returned with an endpoint tag, oldest first.          *)

BufferPoolWithCapacity(capacity) ==
    [capacity |-> capacity, available |-> capacity, assigned |-> << >>]

HasUnassigned(pool, n) == pool.available >= n

get_unassigned_buffer(pool) == [pool EXCEPT !.available = @ - 1]

return_buffer(pool) == [pool EXCEPT !.available = @ + 1]

return_buffer_with_assignment(pool, buffer, endpoint) ==
    [pool EXCEPT !.assigned = Append(@, [endpoint |-> endpoint, buffer |-> buffer])]

AssignedIndices(pool, endpoint) ==
    {i \in 1..Len(pool.assigned) : pool.assigned[i].endpoint = endpoint}

HasAssigned(pool, endpoint) == AssignedIndices(pool, endpoint) # {}

FirstAssigned(pool, endpoint) ==
    CHOOSE i \in AssignedIndices(pool, endpoint) :
        \A j \in AssignedIndices(pool, endpoint) : i <= j

AssignedBuffer(pool, endpoint) == pool.assigned[FirstAssigned(pool, endpoint)].buffer

get_assigned_buffer(pool, endpoint) ==
    LET i == FirstAssigned(pool, endpoint)
    IN  [pool EXCEPT !.assigned =
            SubSeq(@, 1, i - 1) \o SubSeq(@, i + 1, Len(@))]

clear_assignments(pool) ==
    [pool EXCEPT !.available = @ + Len(pool.assigned), !.assigned = << >>]

all_buffers_are_available(pool) ==
    pool.available = pool.capacity /\ pool.assigned = << >>

-----------------------------------------------------------------------------
(* Graph: the node map and the edge map, and the neighbours of a node.     *)

Endpoint(dsp_id) == [dsp_id |-> dsp_id, endpoint_type |-> "Output"]

Connection(source, destination) ==
    [source |-> Endpoint(source), destination |-> Endpoint(destination)]

add_node_with_id(nodes, id) == nodes \cup {id}

remove_node(nodes, id) == nodes \ {id}

add_edge(edges, source, destination) == edges \cup {<<source, destination>>}

remove_edge(edges, source, destination) == edges \ {<<source, destination>>}

\* graph.node_iter(dsp_id, Direction::Incoming)
IncomingNodes(edges, dsp_id) == {e[1] : e \in {x \in edges : x[2] = dsp_id}}

\* The edges of the graph that join two of its nodes.
LiveEdges(nodes, edges) == {e \in edges : e[1] \in nodes /\ e[2] \in nodes}

\* Dsp: the parameter timelines the graph holds, one per node: the events
\* requested for the node, oldest first.
NoParameters == [n \in {} |-> << >>]

\* graph.add_node_with_id(id, dsp): the node comes with empty timelines.
add_node_parameters(parameters, id) ==
    [n \in DOMAIN parameters \cup {id} |->
        IF n \in DOMAIN parameters THEN parameters[n] ELSE << >>]

\* graph.remove_node(id): the node leaves with its timelines.
remove_node_parameters(parameters, id) ==
    [n \in DOMAIN parameters \ {id} |-> parameters[n]]

ParameterChangeRequest(dsp_id, parameter_id, event) ==
    [dsp_id |-> dsp_id, parameter_id |-> parameter_id, event |-> event]

\* dsp.request_parameter_change(change_request): the event joins the
\* timeline of the node's parameter.
append_parameter_event(parameters, change_request) ==
    [parameters EXCEPT ![change_request.dsp_id] =
        Append(@, [parameter_id |-> change_request.parameter_id,
                   event |-> change_request.event])]

-----------------------------------------------------------------------------
(* TopologicalSort: Kahn's algorithm.  A node is emitted once every node   *)
(* with an edge into it has been emitted; a node on a cycle, or reached    *)
(* only through one, never is.                                             *)

Ready(nodes, edges, emitted) ==
    {n \in nodes \ emitted :
        \A e \in LiveEdges(nodes, edges) : e[2] = n => e[1] \in emitted}

RECURSIVE Emitted(_, _, _)
Emitted(nodes, edges, emitted) ==
    LET ready == Ready(nodes, edges, emitted)
    IN  IF ready = {} THEN emitted
        ELSE Emitted(nodes, edges, emitted \cup ready)

\* Kahn's algorithm taking, among the ready nodes, the one of least id.
RECURSIVE KahnAscending(_, _, _)
KahnAscending(nodes, edges, order) ==
    LET emitted == {order[i] : i \in 1..Len(order)}
        ready == Ready(nodes, edges, emitted)
    IN  IF ready = {} THEN order
        ELSE KahnAscending(nodes, edges,
                 Append(order, CHOOSE n \in ready : \A m \in ready : n <= m))

\* Every order Kahn's algorithm can produce, whatever its tie-break: the
\* orders of the emitted nodes that respect the edges.
RECURSIVE KahnOrdersFrom(_, _, _)
KahnOrdersFrom(nodes, edges, order) ==
    LET emitted == {order[i] : i \in 1..Len(order)}
        ready == Ready(nodes, edges, emitted)
    IN  IF ready = {} THEN {order}
        ELSE UNION {KahnOrdersFrom(nodes, edges, Append(order, n)) : n \in ready}

KahnOrders(nodes, edges) == KahnOrdersFrom(nodes, edges, << >>)

Range(order) == {order[i] : i \in 1..Len(order)}

IndexOf(order, n) == CHOOSE i \in 1..Len(order) : order[i] = n

\* The graph has no cycle among its nodes: Kahn's algorithm emits them all.
Acyclic(nodes, edges) == Emitted(nodes, edges, {}) = nodes

\* The nodes on a cycle of the graph (a self-loop included).
RECURSIVE ReachableFrom(_, _, _)
ReachableFrom(nodes, edges, frontier) ==
    LET next == frontier \cup
                {e[2] : e \in {x \in LiveEdges(nodes, edges) : x[1] \in frontier}}
    IN  IF next = frontier THEN frontier ELSE ReachableFrom(nodes, edges, next)

OnCycle(nodes, edges, n) ==
    /\ n \in nodes
    /\ \E e \in LiveEdges(nodes, edges) :
          e[1] = n /\ n \in ReachableFrom(nodes, edges, {e[2]})

-----------------------------------------------------------------------------
(* The node processor of the graph's tests (dsp_graph.rs, tests::Processor):*)
(* it adds its input to its output and then sets one sample.               *)

value_to_write(dsp_id) == dsp_id

location_to_write(dsp_id) == <<dsp_id % 2, dsp_id % 4>>

process_audio(dsp_id, input_buffer, output_slice) ==
    set_sample(
        add_from(output_slice, input_buffer, 0,
                 output_slice.num_channels, output_slice.num_frames),
        location_to_write(dsp_id), value_to_write(dsp_id))

-----------------------------------------------------------------------------
(* DspGraph: the commands.                                                 *)

\* add_dsp without mark_graph_needs_sort.
add_dsp_NoResort(id) ==
    /\ graph_nodes' = add_node_with_id(graph_nodes, id)
    /\ dsp_parameters' = add_node_parameters(dsp_parameters, id)
    /\ UNCHANGED <<graph_edges, topological_sort, output_endpoint,
                   garbage_collection_tx, graph_needs_sort, buffer_pool>>

add_dsp(id) ==
    /\ graph_nodes' = add_node_with_id(graph_nodes, id)
    /\ dsp_parameters' = add_node_parameters(dsp_parameters, id)
    /\ graph_needs_sort' = TRUE
    /\ UNCHANGED <<graph_edges, topological_sort, output_endpoint,
                   garbage_collection_tx, buffer_pool>>

\* remove_dsp letting the removed node go instead of sending it on.
remove_dsp_DropsNode(id) ==
    /\ graph_nodes' = remove_node(graph_nodes, id)
    /\ dsp_parameters' = remove_node_parameters(dsp_parameters, id)
    /\ graph_needs_sort' = TRUE
    /\ UNCHANGED <<graph_edges, topological_sort, output_endpoint,
                   garbage_collection_tx, buffer_pool>>

remove_dsp(id) ==
    /\ graph_nodes' = remove_node(graph_nodes, id)
    /\ dsp_parameters' = remove_node_parameters(dsp_parameters, id)
    /\ garbage_collection_tx' =
          IF id \in graph_nodes
          THEN Append(garbage_collection_tx, id)
          ELSE garbage_collection_tx
    /\ graph_needs_sort' = TRUE
    /\ UNCHANGED <<graph_edges, topological_sort, output_endpoint, buffer_pool>>

\* add_connection without mark_graph_needs_sort.
add_connection_NoResort(connection) ==
    /\ graph_edges' = add_edge(graph_edges, connection.source.dsp_id,
                               connection.destination.dsp_id)
    /\ UNCHANGED <<graph_nodes, topological_sort, output_endpoint,
                   garbage_collection_tx, graph_needs_sort, buffer_pool,
                   dsp_parameters>>

add_connection(connection) ==
    /\ graph_edges' = add_edge(graph_edges, connection.source.dsp_id,
                               connection.destination.dsp_id)
    /\ graph_needs_sort' = TRUE
    /\ UNCHANGED <<graph_nodes, topological_sort, output_endpoint,
                   garbage_collection_tx, buffer_pool,
                   dsp_parameters>>

\* remove_connection without mark_graph_needs_sort.
remove_connection_NoResort(connection) ==
    /\ graph_edges' = remove_edge(graph_edges, connection.source.dsp_id,
                                  connection.destination.dsp_id)
    /\ UNCHANGED <<graph_nodes, topological_sort, output_endpoint,
                   garbage_collection_tx, graph_needs_sort, buffer_pool,
                   dsp_parameters>>

remove_connection(connection) ==
    /\ graph_edges' = remove_edge(graph_edges, connection.source.dsp_id,
                                  connection.destination.dsp_id)
    /\ graph_needs_sort' = TRUE
    /\ UNCHANGED <<graph_nodes, topological_sort, output_endpoint,
                   garbage_collection_tx, buffer_pool,
                   dsp_parameters>>

\* request_parameter_change without the lookup of the node: the event is
\* kept under the id the request names, in the graph or not.
request_parameter_change_Unchecked(change_request) ==
    /\ dsp_parameters' =
          append_parameter_event(
              add_node_parameters(dsp_parameters, change_request.dsp_id),
              change_request)
    /\ UNCHANGED <<graph_nodes, graph_edges, topological_sort, output_endpoint,
                   garbage_collection_tx, graph_needs_sort, buffer_pool>>

request_parameter_change(change_request) ==
    /\ dsp_parameters' =
          IF change_request.dsp_id \in graph_nodes
          THEN append_parameter_event(dsp_parameters, change_request)
          ELSE dsp_parameters
    /\ UNCHANGED <<graph_nodes, graph_edges, topological_sort, output_endpoint,
                   garbage_collection_tx, graph_needs_sort, buffer_pool>>

\* connect_to_output keeping the endpoint that is set, if one is.
connect_to_output_KeepsFirst(endpoint) ==
    /\ output_endpoint' = IF output_endpoint = << >>
                          THEN <<endpoint>> ELSE output_endpoint
    /\ UNCHANGED <<graph_nodes, graph_edges, topological_sort,
                   garbage_collection_tx, graph_needs_sort, buffer_pool,
                   dsp_parameters>>

connect_to_output(endpoint) ==
    /\ output_endpoint' = <<endpoint>>
    /\ UNCHANGED <<graph_nodes, graph_edges, topological_sort,
                   garbage_collection_tx, graph_needs_sort, buffer_pool,
                   dsp_parameters>>

-----------------------------------------------------------------------------
(* DspGraph: rendering one block.                                          *)

\* sort_graph, `orders` being the orders the sort may produce.
sort_graph(orders) ==
    IF graph_needs_sort
    THEN /\ topological_sort' \in orders
         /\ graph_needs_sort' = FALSE
    ELSE UNCHANGED <<topological_sort, graph_needs_sort>>

\* mix_in_endpoint copying the endpoint's buffer over the destination
\* instead of adding it.
mix_in_endpoint_Copies(pool, endpoint, destination, at, channels, frames) ==
    IF HasAssigned(pool, endpoint)
    THEN LET buffer == AssignedBuffer(pool, endpoint)
             taken == get_assigned_buffer(pool, endpoint)
         IN  [pool |-> return_buffer_with_assignment(taken, buffer, endpoint),
              buffer |-> add_from(clear(destination), buffer, at, channels, frames)]
    ELSE [pool |-> pool, buffer |-> destination]

\* mix_in_endpoint returning the endpoint's buffer without its tag
\* (return_buffer for return_buffer_with_assignment).
mix_in_endpoint_Untags(pool, endpoint, destination, at, channels, frames) ==
    IF HasAssigned(pool, endpoint)
    THEN LET buffer == AssignedBuffer(pool, endpoint)
             taken == get_assigned_buffer(pool, endpoint)
         IN  [pool |-> return_buffer(taken),
              buffer |-> add_from(destination, buffer, at, channels, frames)]
    ELSE [pool |-> pool, buffer |-> destination]

\* mix_in_endpoint: the pool and the destination buffer afterwards.
mix_in_endpoint(pool, endpoint, destination, at, channels, frames) ==
    IF HasAssigned(pool, endpoint)
    THEN LET buffer == AssignedBuffer(pool, endpoint)
             taken == get_assigned_buffer(pool, endpoint)
         IN  [pool |-> return_buffer_with_assignment(taken, buffer, endpoint),
              buffer |-> add_from(destination, buffer, at, channels, frames)]
    ELSE [pool |-> pool, buffer |-> destination]

\* copy_output_from_dependencies over the incoming nodes `sources`.
RECURSIVE copy_output_from_dependencies(_, _, _, _, _)
copy_output_from_dependencies(pool, sources, destination, channels, frames) ==
    IF sources = {} THEN [pool |-> pool, buffer |-> destination]
    ELSE LET source == CHOOSE n \in sources : \A m \in sources : n <= m
             mixed == mix_in_endpoint(pool, Endpoint(source), destination, 0,
                                      channels, frames)
         IN  copy_output_from_dependencies(mixed.pool, sources \ {source},
                                           mixed.buffer, channels, frames)

PoolBuffer == OwnedAudioBuffer(MAXIMUM_NUMBER_OF_FRAMES, MAXIMUM_NUMBER_OF_CHANNELS)

\* process_dsp without return_buffer(node_input_buffer).
process_dsp_KeepsInput(pool, nodes, edges, dsp_id, frames, channels) ==
    LET taken == get_unassigned_buffer(get_unassigned_buffer(pool))
        mixed == copy_output_from_dependencies(
                     taken, IncomingNodes(edges, dsp_id), PoolBuffer,
                     channels, frames)
        output_slice == [PoolBuffer EXCEPT !.num_frames = frames]
        written == IF dsp_id \in nodes
                   THEN process_audio(dsp_id, mixed.buffer, output_slice)
                   ELSE output_slice
        node_output == [written EXCEPT !.num_frames = PoolBuffer.num_frames]
    IN  [pool |-> return_buffer_with_assignment(
                      mixed.pool, node_output, Endpoint(dsp_id)),
         input |-> mixed.buffer,
         output |-> node_output]

\* process_dsp once both unassigned buffers are taken: the pool afterwards
\* and the buffers the node read and wrote.
process_dsp(pool, nodes, edges, dsp_id, frames, channels) ==
    LET taken == get_unassigned_buffer(get_unassigned_buffer(pool))
        mixed == copy_output_from_dependencies(
                     taken, IncomingNodes(edges, dsp_id), PoolBuffer,
                     channels, frames)
        output_slice == [PoolBuffer EXCEPT !.num_frames = frames]
        written == IF dsp_id \in nodes
                   THEN process_audio(dsp_id, mixed.buffer, output_slice)
                   ELSE output_slice
        node_output == [written EXCEPT !.num_frames = PoolBuffer.num_frames]
    IN  [pool |-> return_buffer_with_assignment(
                      return_buffer(mixed.pool), node_output, Endpoint(dsp_id)),
         input |-> mixed.buffer,
         output |-> node_output]

\* write_to_output falling back, when no output endpoint is set, on the
\* endpoint assigned last.
write_to_output_FallsBack(pool, endpoint_option, buffer, at, channels, frames) ==
    IF endpoint_option # << >>
    THEN mix_in_endpoint(pool, endpoint_option[1], buffer, at, channels, frames)
    ELSE IF pool.assigned # << >>
    THEN mix_in_endpoint(pool, pool.assigned[Len(pool.assigned)].endpoint,
                         buffer, at, channels, frames)
    ELSE [pool |-> pool, buffer |-> buffer]

\* write_to_output: the pool and the output buffer afterwards.
write_to_output(pool, endpoint_option, buffer, at, channels, frames) ==
    IF endpoint_option # << >>
    THEN mix_in_endpoint(pool, endpoint_option[1], buffer, at, channels, frames)
    ELSE [pool |-> pool, buffer |-> buffer]

\* DspGraph::process taking the caller's frame and channel counts as they
\* are (no std::cmp::min).
ProcessEnter_NoClip(frames, channels, orders) ==
    /\ num_channels' = channels
    /\ num_frames' = frames
    /\ sort_graph(orders)
    /\ sort_index' = 1
    /\ processed' = << >>
    /\ node_inputs' = << >>
    /\ node_outputs' = << >>
    /\ pc' = "dsps"
    /\ UNCHANGED <<graph_nodes, graph_edges, output_endpoint,
                   garbage_collection_tx, buffer_pool, dsp_parameters>>

\* DspGraph::process up to the loop of process_dsps: clip, sort.
\* `frames` and `channels` are the shape of the buffer (slice) it is handed.
ProcessEnter(frames, channels, orders) ==
    /\ num_channels' = Min(channels, MAXIMUM_NUMBER_OF_CHANNELS)
    /\ num_frames' = Min(frames, MAXIMUM_NUMBER_OF_FRAMES)
    /\ sort_graph(orders)
    /\ sort_index' = 1
    /\ processed' = << >>
    /\ node_inputs' = << >>
    /\ node_outputs' = << >>
    /\ pc' = "dsps"
    /\ UNCHANGED <<graph_nodes, graph_edges, output_endpoint,
                   garbage_collection_tx, buffer_pool, dsp_parameters>>

\* One turn of the loop of process_dsps.
ProcessDsp ==
    /\ pc = "dsps"
    /\ sort_index <= Len(topological_sort)
    /\ IF HasUnassigned(buffer_pool, 2)
       THEN LET result == process_dsp(buffer_pool, graph_nodes, graph_edges,
                                      topological_sort[sort_index],
                                      num_frames, num_channels)
            IN  /\ buffer_pool' = result.pool
                /\ processed' = Append(processed, topological_sort[sort_index])
                /\ node_inputs' = Append(node_inputs, result.input)
                /\ node_outputs' = Append(node_outputs, result.output)
                /\ sort_index' = sort_index + 1
                /\ pc' = "dsps"
       ELSE \* get_unassigned_buffer().unwrap() on None: the thread panics
            /\ pc' = "panicked"
            /\ UNCHANGED <<buffer_pool, processed, node_inputs, node_outputs,
                           sort_index>>
    /\ rendered_in_callback' = rendered_in_callback + 1
    /\ UNCHANGED <<processor_vars, graph_nodes, graph_edges, topological_sort,
                   output_endpoint, garbage_collection_tx, graph_needs_sort,
                   dsp_parameters, output_buffer, offset, num_frames, num_channels, next_id,
                   entry_output, sent_count, applied_count, last_applied,
                   callback_count, drained_in_callback, entry_position,
                   entry_notifications,
                   transport_history, chunks, untouched_vars>>

\* The rest of DspGraph::process: write_to_output, clear_assignments, the
\* assertion; the audio thread goes on at `return_pc`.
ProcessLeave(return_pc) ==
    /\ pc = "dsps"
    /\ sort_index > Len(topological_sort)
    /\ LET written == write_to_output(buffer_pool, output_endpoint, output_buffer,
                                      offset, num_channels, num_frames)
           cleared == clear_assignments(written.pool)
       IN  /\ output_buffer' = written.buffer
           /\ buffer_pool' = cleared
           /\ pc' = IF all_buffers_are_available(cleared)
                    THEN return_pc ELSE "panicked"
    /\ UNCHANGED <<graph_nodes, graph_edges, topological_sort, output_endpoint,
                   garbage_collection_tx, graph_needs_sort, dsp_parameters>>

-----------------------------------------------------------------------------
(* Timestamp as the sampler uses it.  A time is kept as a whole number of  *)
(* ticks, TimeResolution ticks to the sample, so that a time may fall      *)
(* between two samples.                                                    *)

\* Ticks per sample.
TimeResolution == 2

\* Timestamp::from_samples(n, sample_rate)
from_samples(n) == n * TimeResolution

\* timestamp.get_samples(sample_rate): the nearest whole sample, a half
\* going away from zero.
get_samples(time) ==
    IF time >= 0
    THEN (2 * time + TimeResolution) \div (2 * TimeResolution)
    ELSE 0 - ((2 * (0 - time) + TimeResolution) \div (2 * TimeResolution))

\* timestamp.incremented_by_samples(n, sample_rate)
incremented_by_samples(time, n) == time + from_samples(n)

\* `x as usize` on a float: a negative value gives 0.
AsUsize(x) == IF x < 0 THEN 0 ELSE x

Max(a, b) == IF a > b THEN a ELSE b

-----------------------------------------------------------------------------
(* Voice and Fade of the sampler.                                          *)

\* dsp/sampler/processor.rs: const NUM_VOICES, FADE_LENGTH_MS,
\* MAX_PENDING_EVENTS.
NUM_VOICES == 2
FADE_LENGTH_MS == 50
MAX_PENDING_EVENTS == 10

\* The sample rate and the length of the sample the sampler plays (tests).
SAMPLER_SAMPLE_RATE == 44100
SAMPLE_FRAMES == 10000

\* Fade::new(FADE_LENGTH_MS, sample_rate).len()
FadeLength == (FADE_LENGTH_MS * SAMPLER_SAMPLE_RATE + 999) \div 1000

VoiceIndices == 0..(NUM_VOICES - 1)

\* Voice::default()
StoppedVoice == [state |-> "Stopped", remaining |-> 0, position |-> 0]

is_stopped(voice) == voice.state = "Stopped"

start_from_position(voice, from_position) ==
    [state |-> "FadingIn", remaining |-> FadeLength, position |-> from_position]

\* voice.stop(): a sounding voice starts to fade out.
voice_stop(voice) ==
    CASE voice.state = "Playing" ->
            [voice EXCEPT !.state = "FadingOut", !.remaining = FadeLength]
      [] voice.state = "FadingIn" -> [voice EXCEPT !.state = "FadingOut"]
      [] OTHER -> voice

\* voice.render over `frames` frames: the voice afterwards.  A voice that
\* reaches the end of the sample ends there.
render(voice, frames) ==
    IF is_stopped(voice) \/ frames = 0 THEN voice
    ELSE IF voice.position + frames >= SAMPLE_FRAMES
    THEN [state |-> "Stopped", remaining |-> 0, position |-> SAMPLE_FRAMES]
    ELSE CASE voice.state = "FadingIn" ->
                 IF frames >= voice.remaining
                 THEN [state |-> "Playing", remaining |-> 0,
                       position |-> voice.position + frames]
                 ELSE [voice EXCEPT !.remaining = @ - frames,
                                    !.position = @ + frames]
           [] voice.state = "FadingOut" ->
                 IF frames >= voice.remaining
                 THEN [state |-> "Stopped", remaining |-> 0,
                       position |-> voice.position + voice.remaining]
                 ELSE [voice EXCEPT !.remaining = @ - frames,
                                    !.position = @ + frames]
           [] OTHER -> [voice EXCEPT !.position = @ + frames]

-----------------------------------------------------------------------------
(* SamplerDspProcess: events, voices, the next render point.               *)

\* SamplerEvent::start / SamplerEvent::stop; `id` tells the events apart
\* (the order they were sent in).
SamplerStart(id, start_at_time, position_in_sample) ==
    [id |-> id, time |-> start_at_time, event_type |-> "Start",
     position_in_sample |-> position_in_sample]

SamplerStop(id, stop_at_time) ==
    [id |-> id, time |-> stop_at_time, event_type |-> "Stop",
     position_in_sample |-> 0]

\* process_voices
process_voices(vs, frames) == [i \in VoiceIndices |-> render(vs[i], frames)]

\* SamplerDspProcess::stop
stop(vs) == [voices |-> [i \in VoiceIndices |-> voice_stop(vs[i])],
             active_voice |-> << >>]

\* assign_voice taking the last free voice instead of the first.
assign_voice_TakesLast(vs, at) ==
    LET stopped == stop(vs).voices
        free == {i \in VoiceIndices : is_stopped(stopped[i])}
    IN  IF free = {} THEN [voices |-> stopped, active_voice |-> << >>]
        ELSE LET index == CHOOSE i \in free : \A j \in free : i >= j
             IN  [voices |-> [stopped EXCEPT
                                 ![index] = start_from_position(stopped[index], at)],
                  active_voice |-> <<index>>]

\* assign_voice without the call of stop: the sounding voices play on.
assign_voice_KeepsOthers(vs, at) ==
    LET free == {i \in VoiceIndices : is_stopped(vs[i])}
    IN  IF free = {} THEN [voices |-> vs, active_voice |-> << >>]
        ELSE LET index == CHOOSE i \in free : \A j \in free : i <= j
             IN  [voices |-> [vs EXCEPT
                                 ![index] = start_from_position(vs[index], at)],
                  active_voice |-> <<index>>]

\* assign_voice
assign_voice(vs, at) ==
    LET stopped == stop(vs).voices
        free == {i \in VoiceIndices : is_stopped(stopped[i])}
    IN  IF free = {} THEN [voices |-> stopped, active_voice |-> << >>]
        ELSE LET index == CHOOSE i \in free : \A j \in free : i <= j
             IN  [voices |-> [stopped EXCEPT
                                 ![index] = start_from_position(stopped[index], at)],
                  active_voice |-> <<index>>]

\* start without the comparison of the active voice's position.
start_NoDebounce(vs, active, from_position) == assign_voice(vs, from_position)

\* SamplerDspProcess::start
start(vs, active, from_position) ==
    IF active # << >> /\ vs[active[1]].position = from_position
    THEN [voices |-> vs, active_voice |-> active]
    ELSE assign_voice(vs, from_position)

\* process_event
process_event(vs, active, event) ==
    IF event.event_type = "Start"
    THEN start(vs, active, AsUsize(get_samples(event.position_in_sample)))
    ELSE stop(vs)

\* The ids of the events held in a sequence of events.
EventIds(events) == {events[k].id : k \in 1..Len(events)}

\* A sort that leaves the events in the order they arrived in.
SortByTime_KeepsArrivalOrder(events) == events

\* pending_events.sort_by(time): a stable sort.
RECURSIVE InsertByTime(_, _)
InsertByTime(sorted, event) ==
    IF sorted = << >> THEN <<event>>
    ELSE IF event.time < Head(sorted).time THEN <<event>> \o sorted
    ELSE <<Head(sorted)>> \o InsertByTime(Tail(sorted), event)

RECURSIVE SortByTime(_)
SortByTime(events) ==
    IF events = << >> THEN << >>
    ELSE InsertByTime(SortByTime(SubSeq(events, 1, Len(events) - 1)),
                      events[Len(events)])

NoEvent == SamplerStop(0, 0)

\* next_event_before that leaves an event of a past time where it is.
next_event_before_SkipsPast(pending, end_time) ==
    IF pending # << >> /\ pending[1].time < end_time
                      /\ pending[1].time >= render_time
    THEN [found |-> TRUE, event |-> Head(pending), rest |-> Tail(pending)]
    ELSE [found |-> FALSE, event |-> NoEvent, rest |-> pending]

\* next_event_before that also takes an event due exactly at the end time.
next_event_before_UpToEnd(pending, end_time) ==
    IF pending # << >> /\ pending[1].time <= end_time
    THEN [found |-> TRUE, event |-> Head(pending), rest |-> Tail(pending)]
    ELSE [found |-> FALSE, event |-> NoEvent, rest |-> pending]

\* next_event_before: the event taken, if one is, and the events left.
next_event_before(pending, end_time) ==
    IF pending # << >> /\ pending[1].time < end_time
    THEN [found |-> TRUE, event |-> Head(pending), rest |-> Tail(pending)]
    ELSE [found |-> FALSE, event |-> NoEvent, rest |-> pending]

\* next_render_point rendering up to the end of the block before it
\* applies the event it found.
next_render_point_AtBlockEnd(pending, frame_start_time, current_frame_position, number_of_frames) ==
    LET frame_end_time == incremented_by_samples(frame_start_time, number_of_frames)
        next == next_event_before(pending, frame_end_time)
    IN  [end_frame |-> number_of_frames, found |-> next.found,
         event |-> next.event, rest |-> next.rest]

\* next_render_point: the frame to render up to, and the event to apply
\* there, if one is due in this block.
next_render_point(pending, frame_start_time, current_frame_position, number_of_frames) ==
    LET frame_end_time == incremented_by_samples(frame_start_time, number_of_frames)
        next == next_event_before(pending, frame_end_time)
        event_time == Max(next.event.time, current_frame_position)
        position_in_frame == event_time - frame_start_time
    IN  IF next.found
        THEN [end_frame |-> AsUsize(get_samples(position_in_frame)),
              found |-> TRUE, event |-> next.event, rest |-> next.rest]
        ELSE [end_frame |-> number_of_frames, found |-> FALSE,
              event |-> NoEvent, rest |-> pending]

-----------------------------------------------------------------------------
(* OscillatorDspProcess.  The phase is an f64; the model holds it as a     *)
(* whole number of PhaseResolution-ths, PhaseResolution a power of two, so *)
(* that every phase and every increment of the model is a binary fraction  *)
(* the f64 arithmetic of the code computes without rounding.               *)

\* The phase has PhaseBits binary places.
PhaseBits == 2
PhaseResolution == 2 ^ PhaseBits

\* SINE_WAVE_TABLE.len()
TABLE_LENGTH == 8192

\* The ids of the oscillator's two parameters.
frequency_id == 1
gain_id == 2

\* increment_phase: `increment` is frequency / sample_rate, in
\* PhaseResolution-ths; 1.0 is taken off while the phase is over 1.0.
RECURSIVE increment_phase(_, _)
increment_phase(p, increment) ==
    IF p + increment > PhaseResolution
    THEN increment_phase(p - PhaseResolution, increment)
    ELSE p + increment

\* get_value: the two table offsets and the weighting between them (in
\* PhaseResolution-ths); SINE_WAVE_TABLE[offset_before] is out of range
\* when offset_before is not below the table's length.
get_value(p) ==
    LET table_offset == p * TABLE_LENGTH
        before == table_offset \div PhaseResolution
        after == (table_offset + PhaseResolution - 1) \div PhaseResolution
    IN  [out_of_range |-> before >= TABLE_LENGTH,
         offset_before |-> before,
         offset_after |-> after,
         weighting |-> table_offset - before * PhaseResolution]

\* A sample no one wrote to (0.0), and the sample the oscillator writes.
Silence == [written |-> FALSE, gain |-> 0, offset_before |-> 0,
            offset_after |-> 0, weighting |-> 0]

OscillatorSample(gain, value) ==
    [written |-> TRUE, gain |-> gain, offset_before |-> value.offset_before,
     offset_after |-> value.offset_after, weighting |-> value.weighting]

\* process_audio's loop from `frame` on: the phase and the output at its
\* end, or at the frame whose table lookup panicked.
RECURSIVE oscillator_frames(_, _, _, _, _)
oscillator_frames(p, output, frame, frequency, gain) ==
    IF frame > Len(output)
    THEN [phase |-> p, output |-> output, panicked |-> FALSE]
    ELSE LET incremented == increment_phase(p, frequency)
             value == get_value(incremented)
         IN  IF value.out_of_range
             THEN [phase |-> incremented, output |-> output, panicked |-> TRUE]
             ELSE oscillator_frames(incremented,
                                    [output EXCEPT ![frame] =
                                        OscillatorSample(gain, value)],
                                    frame + 1, frequency, gain)

\* process_audio that takes a gain of 1 when the gain parameter is missing.
oscillator_process_audio_DefaultGain(p, output, parameters) ==
    IF frequency_id \notin DOMAIN parameters
    THEN [phase |-> p, output |-> output, panicked |-> FALSE]
    ELSE oscillator_frames(p, output, 1, parameters[frequency_id],
                           IF gain_id \in DOMAIN parameters
                           THEN parameters[gain_id] ELSE 1)

\* OscillatorDspProcess::process_audio
oscillator_process_audio(p, output, parameters) ==
    IF frequency_id \notin DOMAIN parameters
    THEN [phase |-> p, output |-> output, panicked |-> FALSE]
    ELSE IF gain_id \notin DOMAIN parameters
    THEN [phase |-> p, output |-> output, panicked |-> FALSE]
    ELSE oscillator_frames(p, output, 1, parameters[frequency_id],
                           parameters[gain_id])

-----------------------------------------------------------------------------
(* Id::generate, called from several threads.                              *)

\* How many threads call Id::generate.
NumIdThreads == 2
IdThreads == 1..NumIdThreads

\* A thread that is not in a call of generate.
NotCalling == [pc |-> "idle", value |-> 0, invoked |-> 0]

-----------------------------------------------------------------------------
(* The state after construction (Processor::new, DspGraph::new).           *)

NoBuffer == OwnedAudioBuffer(0, 0)

\* last_applied before any command was applied.
NoMessage == [seq |-> 0, sent_during |-> 0, sent_in_callback |-> FALSE, applied_in |-> 0]

Init ==
    /\ started = FALSE
    /\ sample_position = 0
    /\ command_rx = << >>
    /\ notification_tx = << >>
    /\ position_counter = 0
    /\ graph_nodes = {}
    /\ graph_edges = {}
    /\ topological_sort = << >>
    /\ output_endpoint = << >>
    /\ garbage_collection_tx = << >>
    /\ graph_needs_sort = FALSE
    /\ buffer_pool = BufferPoolWithCapacity(BUFFER_POOL_CAPACITY)
    /\ dsp_parameters = NoParameters
    /\ pc = "idle"
    /\ output_buffer = NoBuffer
    /\ offset = 0
    /\ num_frames = 0
    /\ num_channels = 0
    /\ sort_index = 1
    /\ next_id = 1
    /\ processed = << >>
    /\ node_inputs = << >>
    /\ node_outputs = << >>
    /\ entry_output = NoBuffer
    /\ sent_count = 0
    /\ applied_count = 0
    /\ last_applied = NoMessage
    /\ callback_count = 0
    /\ drained_in_callback = 0
    /\ rendered_in_callback = 0
    /\ entry_position = 0
    /\ entry_notifications = 0
    /\ frames_since_start = 0
    /\ chunks = << >>
    /\ drained_commands = << >>
    /\ replaced_endpoint = << >>
    /\ voices = [i \in VoiceIndices |-> StoppedVoice]
    /\ active_voice = << >>
    /\ event_receiver = << >>
    /\ pending_events = << >>
    /\ sort_required = FALSE
    /\ start_time = 0
    /\ position = 0
    /\ render_time = 0
    /\ segments = << >>
    /\ applied_events = << >>
    /\ events_sent = 0
    /\ blocks_rendered = 0
    /\ phase = 0
    /\ oscillator_parameters = << >>
    /\ oscillator_output = << >>
    /\ oscillator_blocks = 0
    /\ NEXT = 0
    /\ id_calls = [thread \in IdThreads |-> NotCalling]
    /\ id_returned = << >>
    /\ id_clock = 0

-----------------------------------------------------------------------------
(* SpecGraph: a DspGraph driven directly, as its unit tests drive it: the  *)
(* caller applies commands and calls process on a buffer of its own.       *)

\* The buffers the caller hands to process, of the shapes of the unit
\* tests: within the pool's maxima (empty, and already holding audio), with
\* twice the channels, with twice the frames; the last two hold audio
\* beyond the maxima.
TestOutputBuffers ==
    { OwnedAudioBuffer(128, 2),
      set_sample(OwnedAudioBuffer(128, 2), <<0, 5>>, 7),
      set_sample(OwnedAudioBuffer(128, 4), <<3, 5>>, 7),
      set_sample(OwnedAudioBuffer(1024, 2), <<1, 600>>, 7) }

GraphCommand(command) ==
    /\ pc = "idle"
    /\ applied_count < MaxGraphCommands
    /\ command
    /\ applied_count' = applied_count + 1
    /\ UNCHANGED <<processor_vars, audio_vars, processed, node_inputs,
                   node_outputs, entry_output, sent_count, last_applied,
                   callback_count, drained_in_callback, rendered_in_callback,
                   entry_position, entry_notifications,
                   frames_since_start, chunks, untouched_vars>>

GraphAddDsp ==
    /\ next_id \in Ids
    /\ GraphCommand(add_dsp(next_id))
    /\ next_id' = next_id + 1
    /\ UNCHANGED replaced_endpoint

GraphRemoveDsp ==
    \E id \in Ids : GraphCommand(remove_dsp(id)) /\ UNCHANGED <<next_id, replaced_endpoint>>

GraphAddConnection ==
    \E source \in Ids, destination \in Ids :
        /\ GraphCommand(add_connection(Connection(source, destination)))
        /\ UNCHANGED <<next_id, replaced_endpoint>>

GraphRemoveConnection ==
    \E source \in Ids, destination \in Ids :
        /\ GraphCommand(remove_connection(Connection(source, destination)))
        /\ UNCHANGED <<next_id, replaced_endpoint>>

GraphConnectToOutput ==
    \E id \in Ids :
        /\ GraphCommand(connect_to_output(Endpoint(id)))
        /\ replaced_endpoint' = output_endpoint
        /\ UNCHANGED next_id

GraphProcess ==
    /\ pc = "idle"
    /\ \E buffer \in TestOutputBuffers :
          /\ output_buffer' = buffer
          /\ entry_output' = buffer
          /\ ProcessEnter(buffer.num_frames, buffer.num_channels,
                          KahnOrders(graph_nodes, graph_edges))
    /\ offset' = 0
    /\ rendered_in_callback' = 0
    /\ UNCHANGED <<processor_vars, next_id, sent_count, applied_count,
                   last_applied, callback_count, drained_in_callback,
                   entry_position, entry_notifications,
                   transport_history, chunks, untouched_vars>>

GraphProcessDsp == ProcessDsp

GraphProcessLeave ==
    /\ ProcessLeave("returned")
    /\ UNCHANGED <<processor_vars, offset, num_frames, num_channels, sort_index,
                   next_id, history_vars,
                   transport_history, chunks, untouched_vars>>

\* process has returned; the caller lets go of its buffer.
GraphReturn ==
    /\ pc = "returned"
    /\ pc' = "idle"
    /\ output_buffer' = NoBuffer
    /\ entry_output' = NoBuffer
    /\ processed' = << >>
    /\ node_inputs' = << >>
    /\ node_outputs' = << >>
    /\ rendered_in_callback' = 0
    /\ UNCHANGED <<processor_vars, graph_vars, offset, num_frames, num_channels,
                   sort_index, next_id, sent_count, applied_count, last_applied,
                   callback_count, drained_in_callback, entry_position,
                   entry_notifications,
                   transport_history, chunks, untouched_vars>>

NextGraph ==
    \/ GraphAddDsp
    \/ GraphRemoveDsp
    \/ GraphAddConnection
    \/ GraphRemoveConnection
    \/ GraphConnectToOutput
    \/ GraphProcess
    \/ GraphProcessDsp
    \/ GraphProcessLeave
    \/ GraphReturn

SpecGraph == Init /\ [][NextGraph]_vars

-----------------------------------------------------------------------------
(* Processor: the audio callback and the control thread that feeds it.     *)

\* context: the sample rate the example builds the engine with.
SAMPLE_RATE == 44100

\* processor.rs: const POSITION_INTERVAL_HZ.
POSITION_INTERVAL_HZ == 30

\* How many commands the control thread sends, and how many callbacks the
\* host makes, in one behaviour of Spec.
MaxCommands == 3
MaxCallbacks == 2

StartCommand == [kind |-> "Start"]
StopCommand == [kind |-> "Stop"]
AddDspCommand(id) == [kind |-> "AddDsp", id |-> id]
RemoveDspCommand(id) == [kind |-> "RemoveDsp", id |-> id]
AddConnectionCommand(connection) == [kind |-> "AddConnection", connection |-> connection]
RemoveConnectionCommand(connection) ==
    [kind |-> "RemoveConnection", connection |-> connection]
ConnectToOutputCommand(endpoint) == [kind |-> "ConnectToOutput", endpoint |-> endpoint]
ParameterValueChangeCommand(change_request) ==
    [kind |-> "ParameterValueChange", change_request |-> change_request]

\* The nodes and the connection the control thread of Spec works with.
ControlIds == {1, 2}
ControlConnections == {Connection(1, 2)}

\* The commands the control thread may send next, a new node taking the
\* next id.
ControlCommands ==
    {StartCommand, StopCommand}
    \cup (IF next_id \in ControlIds THEN {AddDspCommand(next_id)} ELSE {})
    \cup {RemoveDspCommand(id) : id \in {1}}
    \cup {AddConnectionCommand(connection) : connection \in ControlConnections}
    \cup {RemoveConnectionCommand(connection) : connection \in ControlConnections}
    \cup {ConnectToOutputCommand(Endpoint(id)) : id \in ControlIds}

\* The buffers the host hands to the callback; they hold stale audio.
CallbackBuffers ==
    { set_sample(OwnedAudioBuffer(128, 2), <<0, 5>>, 7),
      set_sample(OwnedAudioBuffer(1024, 2), <<1, 600>>, 7) }

\* Timestamp::from_seconds(samples / sample_rate), kept as the fraction.
Timestamp(samples, rate) == [samples |-> samples, rate |-> rate]

current_time == Timestamp(sample_position, SAMPLE_RATE)

\* PeriodicNotification: the samples between two notifications.
PositionInterval == SAMPLE_RATE \div POSITION_INTERVAL_HZ

\* PeriodicNotification::increment: whether the interval has elapsed.
PositionElapsed(counter, num_samples) == counter + num_samples >= PositionInterval

PositionCounterAfter(counter, num_samples) ==
    IF PositionElapsed(counter, num_samples)
    THEN (counter + num_samples) % PositionInterval
    ELSE counter + num_samples

\* recv() handing out the newest message instead of the oldest.
recv_Newest(channel) ==
    [message |-> channel[Len(channel)], rest |-> SubSeq(channel, 1, Len(channel) - 1)]

\* command_rx.recv() on a channel that holds a message: the message
\* received and what the channel holds afterwards.
recv(channel) == [message |-> Head(channel), rest |-> Tail(channel)]

\* process_commands applying to the graph only while the transport is
\* started: a graph command drained while stopped is dropped.
apply_command_WhileStarted(command) ==
    /\ started' = CASE command.kind = "Start" -> TRUE
                    [] command.kind = "Stop" -> FALSE
                    [] OTHER -> started
    /\ CASE command.kind = "AddDsp" /\ started -> add_dsp(command.id)
         [] command.kind = "RemoveDsp" /\ started -> remove_dsp(command.id)
         [] command.kind = "ParameterValueChange" /\ started ->
               request_parameter_change(command.change_request)
         [] command.kind = "AddConnection" /\ started ->
               add_connection(command.connection)
         [] command.kind = "RemoveConnection" /\ started ->
               remove_connection(command.connection)
         [] command.kind = "ConnectToOutput" /\ started ->
               connect_to_output(command.endpoint)
         [] OTHER -> UNCHANGED graph_vars

\* The arm of process_commands' match that a command takes.
apply_command(command) ==
    /\ started' = CASE command.kind = "Start" -> TRUE
                    [] command.kind = "Stop" -> FALSE
                    [] OTHER -> started
    /\ CASE command.kind = "AddDsp" -> add_dsp(command.id)
         [] command.kind = "RemoveDsp" -> remove_dsp(command.id)
         [] command.kind = "ParameterValueChange" ->
               request_parameter_change(command.change_request)
         [] command.kind = "AddConnection" -> add_connection(command.connection)
         [] command.kind = "RemoveConnection" -> remove_connection(command.connection)
         [] command.kind = "ConnectToOutput" -> connect_to_output(command.endpoint)
         [] OTHER -> UNCHANGED graph_vars

\* The control thread sends one of `commands`, `limit` commands at most.
SendFrom(commands, limit) ==
    /\ sent_count < limit
    /\ \E command \in commands :
          /\ command_rx' = Append(command_rx,
                                  [seq |-> sent_count + 1,
                                   sent_during |-> callback_count,
                                   sent_in_callback |-> pc # "idle",
                                   command |-> command])
          /\ next_id' = IF command.kind = "AddDsp" THEN next_id + 1 ELSE next_id
    /\ sent_count' = sent_count + 1
    /\ UNCHANGED <<started, sample_position, notification_tx, position_counter,
                   graph_vars, audio_vars, processed, node_inputs, node_outputs,
                   entry_output, applied_count, last_applied, callback_count,
                   drained_in_callback, rendered_in_callback, entry_position,
                   entry_notifications,
                   transport_history, chunks, untouched_vars>>

\* The control thread sends a command.
Send == SendFrom(ControlCommands, MaxCommands)

\* Processor::process begins: output_buffer.clear().  The host makes
\* `limit` callbacks at most.
BeginCallback(limit) ==
    /\ pc = "idle"
    /\ callback_count < limit
    /\ \E buffer \in CallbackBuffers :
          /\ entry_output' = buffer
          /\ output_buffer' = clear(buffer)
    /\ pc' = "drain"
    /\ callback_count' = callback_count + 1
    /\ drained_in_callback' = 0
    /\ rendered_in_callback' = 0
    /\ entry_position' = sample_position
    /\ entry_notifications' = Len(notification_tx)
    /\ offset' = 0
    /\ processed' = << >>
    /\ node_inputs' = << >>
    /\ node_outputs' = << >>
    /\ chunks' = << >>
    /\ UNCHANGED <<processor_vars, graph_vars, num_frames, num_channels,
                   sort_index, next_id, sent_count, applied_count, last_applied,
                   transport_history, untouched_vars>>

CallbackBegin == BeginCallback(MaxCallbacks)

\* process_commands: recv() returned a command, which is applied.
ApplyReceived ==
    /\ pc = "drain"
    /\ command_rx # << >>
    /\ LET received == recv(command_rx)
       IN  /\ apply_command(received.message.command)
           /\ command_rx' = received.rest
           /\ last_applied' = [seq |-> received.message.seq,
                                sent_during |-> received.message.sent_during,
                                sent_in_callback |-> received.message.sent_in_callback,
                                applied_in |-> callback_count]
           /\ frames_since_start' =
                 IF received.message.command.kind = "Start" /\ ~started
                 THEN 0 ELSE frames_since_start
           /\ replaced_endpoint' =
                 IF received.message.command.kind = "ConnectToOutput"
                 THEN output_endpoint ELSE replaced_endpoint
    /\ applied_count' = applied_count + 1
    /\ drained_in_callback' = drained_in_callback + 1
    /\ UNCHANGED <<sample_position, notification_tx, position_counter,
                   audio_vars, next_id, processed, node_inputs, node_outputs,
                   entry_output, sent_count, callback_count,
                   rendered_in_callback, entry_position, entry_notifications,
                   chunks, dsp_vars>>

ProcessCommand == ApplyReceived /\ UNCHANGED drained_commands

\* The same step, the command applied being written down.
RecordedProcessCommand ==
    /\ ApplyReceived
    /\ drained_commands' = Append(drained_commands,
                                  [command |-> recv(command_rx).message.command,
                                   callback |-> callback_count])

\* process_commands taking one command at most (if let for while let).
DrainEnds_AfterOne == command_rx = << >> \/ drained_in_callback >= 1

\* Whether process_commands' loop ends: recv() found the channel empty.
DrainEnds == command_rx = << >>

\* process without the early return on !self.started.
AfterCommands_IgnoresStarted == "graph"

\* Where process goes once process_commands has returned.
AfterCommands == IF started THEN "graph" ELSE "returned"

\* process_commands returns; process returns if the transport is stopped.
CommandsDone ==
    /\ pc = "drain"
    /\ DrainEnds
    /\ pc' = AfterCommands
    /\ UNCHANGED <<processor_vars, graph_vars, output_buffer, offset, num_frames,
                   num_channels, sort_index, next_id, history_vars,
                   transport_history, chunks, untouched_vars>>

\* process_graph taking the whole rest of the buffer as the next slice.
chunk_frames_Unbounded(total_frames, at) == total_frames - at

\* process_graph: the frames of the slice that starts at frame `at`.
chunk_frames(total_frames, at) ==
    Min(total_frames - at, MAXIMUM_NUMBER_OF_FRAMES)

\* process_graph: the loop goes on, DspGraph::process is called on the
\* next slice of at most MAXIMUM_NUMBER_OF_FRAMES frames, with the
\* current_time process_graph took before the loop (sample_position does
\* not change in the loop).
ChunkEnter ==
    /\ pc = "graph"
    /\ offset < output_buffer.num_frames
    /\ ProcessEnter(chunk_frames(output_buffer.num_frames, offset),
                    output_buffer.num_channels,
                    KahnOrders(graph_nodes, graph_edges))
    /\ chunks' = Append(chunks,
                        [offset |-> offset,
                         frames |-> chunk_frames(output_buffer.num_frames, offset),
                         start_time |-> current_time])
    /\ UNCHANGED <<processor_vars, output_buffer, offset, next_id, entry_output,
                   sent_count, applied_count, last_applied, callback_count,
                   drained_in_callback, rendered_in_callback, entry_position,
                   entry_notifications,
                   transport_history, untouched_vars>>

\* DspGraph::process returns to process_graph: offset += num_frames.
ChunkLeave ==
    /\ ProcessLeave("graph")
    /\ offset' = offset + chunks[Len(chunks)].frames
    /\ UNCHANGED <<processor_vars, num_frames, num_channels, sort_index, next_id,
                   history_vars,
                   transport_history, chunks, untouched_vars>>

\* notify_position sending the position as it was before update_position
\* added the callback's frames.
notify_position_StalePosition(tx, counter, new_position, num_samples) ==
    IF PositionElapsed(counter, num_samples)
    THEN Append(tx, Timestamp(new_position - num_samples, SAMPLE_RATE))
    ELSE tx

\* notify_position(num_samples), `new_position` being sample_position as
\* update_position left it: the notification channel afterwards.
notify_position(tx, counter, new_position, num_samples) ==
    IF PositionElapsed(counter, num_samples)
    THEN Append(tx, Timestamp(new_position, SAMPLE_RATE))
    ELSE tx

\* process_graph's loop has ended: update_position, notify_position.
CallbackFinish ==
    /\ pc = "graph"
    /\ offset >= output_buffer.num_frames
    /\ sample_position' = sample_position + output_buffer.num_frames
    /\ position_counter' =
          PositionCounterAfter(position_counter, output_buffer.num_frames)
    /\ notification_tx' =
          notify_position(notification_tx, position_counter,
                          sample_position + output_buffer.num_frames,
                          output_buffer.num_frames)
    /\ frames_since_start' = frames_since_start + output_buffer.num_frames
    /\ pc' = "returned"
    /\ UNCHANGED <<started, command_rx, graph_vars, output_buffer, offset,
                   num_frames, num_channels, sort_index, next_id, history_vars,
                   replaced_endpoint, chunks, untouched_vars>>

\* The callback has returned; the host takes its buffer.
CallbackReturn ==
    /\ pc = "returned"
    /\ pc' = "idle"
    /\ output_buffer' = NoBuffer
    /\ entry_output' = NoBuffer
    /\ processed' = << >>
    /\ node_inputs' = << >>
    /\ node_outputs' = << >>
    /\ drained_in_callback' = 0
    /\ rendered_in_callback' = 0
    /\ entry_position' = sample_position
    /\ entry_notifications' = Len(notification_tx)
    /\ UNCHANGED <<processor_vars, graph_vars, offset, num_frames, num_channels,
                   sort_index, next_id, sent_count, applied_count, last_applied,
                   callback_count,
                   transport_history, chunks, untouched_vars>>

Next ==
    \/ Send
    \/ CallbackBegin
    \/ ProcessCommand
    \/ CommandsDone
    \/ ChunkEnter
    \/ ProcessDsp
    \/ ChunkLeave
    \/ CallbackFinish
    \/ CallbackReturn

Spec == Init /\ [][Next]_vars

-----------------------------------------------------------------------------
(* SpecTransport: the callback with a control thread that only starts and  *)
(* stops the transport, over more callbacks than Spec follows.             *)

\* How many commands the control thread sends, and how many callbacks the
\* host makes, in one behaviour of SpecTransport.
MaxTransportCommands == 3
MaxTransportCallbacks == 4

TransportCommands == {StartCommand, StopCommand}

TransportSend == SendFrom(TransportCommands, MaxTransportCommands)

TransportCallbackBegin == BeginCallback(MaxTransportCallbacks)

NextTransport ==
    \/ TransportSend
    \/ TransportCallbackBegin
    \/ ProcessCommand
    \/ CommandsDone
    \/ ChunkEnter
    \/ ChunkLeave
    \/ CallbackFinish
    \/ CallbackReturn

SpecTransport == Init /\ [][NextTransport]_vars

\* The audio callback, once it is in process_graph, runs on: no step of it
\* waits on another thread.
FairTransport ==
    /\ SpecTransport
    /\ WF_vars(ChunkEnter)
    /\ WF_vars(ChunkLeave)
    /\ WF_vars(CallbackFinish)

-----------------------------------------------------------------------------
(* SpecCapacity: a DspGraph that is given node after node, with no         *)
(* connection, and renders blocks; the sort breaks its ties by id.         *)

\* How many nodes one behaviour of SpecCapacity adds.
MaxCapacityNodes == 128

CapacityAddDsp ==
    /\ pc = "idle"
    /\ next_id <= MaxCapacityNodes
    /\ next_id <= GRAPH_NODE_CAPACITY
    /\ add_dsp(next_id)
    /\ next_id' = next_id + 1
    /\ UNCHANGED <<processor_vars, audio_vars, history_vars,
                   transport_history, chunks, untouched_vars>>

CapacityProcess ==
    /\ pc = "idle"
    /\ LET buffer == OwnedAudioBuffer(128, 2)
       IN  /\ output_buffer' = buffer
           /\ entry_output' = buffer
           /\ ProcessEnter(buffer.num_frames, buffer.num_channels,
                           {KahnAscending(graph_nodes, graph_edges, << >>)})
    /\ offset' = 0
    /\ rendered_in_callback' = 0
    /\ UNCHANGED <<processor_vars, next_id, sent_count, applied_count,
                   last_applied, callback_count, drained_in_callback,
                   entry_position, entry_notifications,
                   transport_history, chunks, untouched_vars>>

NextCapacity ==
    \/ CapacityAddDsp
    \/ CapacityProcess
    \/ ProcessDsp
    \/ GraphProcessLeave
    \/ GraphReturn

SpecCapacity == Init /\ [][NextCapacity]_vars

\* C6: in every graph the engine can hold, each take of an unassigned
\* buffer in process_dsp finds one: when process_dsp is about to run, two
\* buffers of the pool are free and untagged, and the audio thread never
\* panics on the unwrap.
C6_EveryTakeSucceeds ==
    Cardinality(graph_nodes) <= GRAPH_NODE_CAPACITY =>
        /\ pc # "panicked"
        /\ (pc = "dsps" /\ sort_index <= Len(topological_sort)) =>
              HasUnassigned(buffer_pool, 2)

-----------------------------------------------------------------------------
(* SpecParameters: a DspGraph whose caller adds nodes, removes nodes that  *)
(* are in the graph, requests parameter changes for any id, and renders.   *)

\* The parameter ids and the events of the requests.
ParameterIds == {1}
ParameterEvents == {1, 2}

ChangeRequests ==
    {ParameterChangeRequest(dsp_id, parameter_id, event) :
        dsp_id \in Ids, parameter_id \in ParameterIds, event \in ParameterEvents}

ParametersRemoveDsp ==
    \E id \in graph_nodes : GraphCommand(remove_dsp(id)) /\ UNCHANGED <<next_id, replaced_endpoint>>

ParametersChange ==
    \E change_request \in ChangeRequests :
        /\ GraphCommand(request_parameter_change(change_request))
        /\ UNCHANGED <<next_id, replaced_endpoint>>

NextParameters ==
    \/ GraphAddDsp
    \/ ParametersRemoveDsp
    \/ ParametersChange
    \/ GraphProcess
    \/ GraphProcessDsp
    \/ GraphProcessLeave
    \/ GraphReturn

SpecParameters == Init /\ [][NextParameters]_vars

\* The events all the timelines hold.
TimelineEvents == SumOver([n \in DOMAIN dsp_parameters |-> Len(dsp_parameters[n])],
                          DOMAIN dsp_parameters)

\* C12: a parameter change request whose dsp_id names no node of the graph
\* changes nothing: the nodes, the edges, the output endpoint, the sort
\* flag, the cached order, the pool and every parameter timeline stay as
\* they were, and the audio thread does not panic.  The timelines are
\* those of the graph's nodes and of no other id.
C12_UnknownNodeStep ==
    \A change_request \in ChangeRequests :
        (/\ GraphCommand(request_parameter_change(change_request))
         /\ change_request.dsp_id \notin graph_nodes)
        => /\ UNCHANGED <<graph_nodes, graph_edges, output_endpoint,
                          graph_needs_sort, topological_sort, buffer_pool,
                          garbage_collection_tx, dsp_parameters>>
           /\ pc' = "idle"

C12_UnknownNodeChangeIgnored ==
    /\ [](DOMAIN dsp_parameters = graph_nodes /\ pc # "panicked")
    /\ [][C12_UnknownNodeStep]_vars

\* Every command of SpecParameters but an ignored request leaves a trace
\* (a node id taken, a node disposed of, an event in a timeline): here one
\* request was ignored, for the id of a node that had been removed or of
\* one never added, while another node's request was kept.
C12_Witness ==
    /\ pc = "idle"
    /\ graph_nodes = {2}
    /\ garbage_collection_tx = <<1>>
    /\ Len(dsp_parameters[2]) = 1
    /\ applied_count = 5
    /\ applied_count = (next_id - 1) + Len(garbage_collection_tx) + TimelineEvents + 1

-----------------------------------------------------------------------------
(* SpecStopped: the processor with a control thread that starts and stops  *)
(* the transport and, stopped or not, adds a node, changes its parameter   *)
(* and connects it to the output.                                          *)

\* How many commands the control thread sends, and how many callbacks the
\* host makes, in one behaviour of SpecStopped.
MaxStoppedCommands == 3
MaxStoppedCallbacks == 2

\* The node the control thread of SpecStopped works with.
StoppedIds == {1}

StoppedCommands ==
    {StartCommand, StopCommand}
    \cup (IF next_id \in StoppedIds THEN {AddDspCommand(next_id)} ELSE {})
    \cup {RemoveDspCommand(id) : id \in StoppedIds}
    \cup {ParameterValueChangeCommand(ParameterChangeRequest(id, 1, 1)) :
             id \in StoppedIds}
    \cup {ConnectToOutputCommand(Endpoint(id)) : id \in StoppedIds}

StoppedSend == SendFrom(StoppedCommands, MaxStoppedCommands)

StoppedCallbackBegin == BeginCallback(MaxStoppedCallbacks)

NextStopped ==
    \/ StoppedSend
    \/ StoppedCallbackBegin
    \/ RecordedProcessCommand
    \/ CommandsDone
    \/ ChunkEnter
    \/ ProcessDsp
    \/ ChunkLeave
    \/ CallbackFinish
    \/ CallbackReturn

SpecStopped == Init /\ [][NextStopped]_vars

-----------------------------------------------------------------------------
(* SpecSampler: one SamplerDspProcess, the control side sending it events  *)
(* while the audio thread calls process_audio block after block.           *)

\* How many events the control side sends, and how many blocks are
\* rendered, in one behaviour of SpecSampler.
MaxSamplerEvents == 2
MaxSamplerBlocks == 2

\* The times of the events: the start, samples 1500 and 2000 (tests), and
\* a time between two samples.
SamplerTimes ==
    {from_samples(0), from_samples(1500), from_samples(1500) + 1, from_samples(2000)}

\* The events the control side may send as its id-th event.
SamplerEvents(id) ==
    {SamplerStart(id, time, from_samples(0)) : time \in SamplerTimes}
    \cup {SamplerStop(id, time) : time \in SamplerTimes}

\* The frame counts of the blocks: the engine's maximum, and the tests'.
SamplerBlockFrames == {512, 10000}

\* What the sampler's actions leave alone.
engine_vars == <<processor_vars, graph_vars, output_buffer, offset, num_channels,
                 sort_index, next_id, history_vars, transport_history,
                 chunks, drained_commands, oscillator_vars, id_vars>>

\* The control side sends one of `events`, `limit` events at most.
SamplerSendOf(events, limit) ==
    /\ events_sent < limit
    /\ \E event \in events : event_receiver' = Append(event_receiver, event)
    /\ events_sent' = events_sent + 1
    /\ UNCHANGED <<engine_vars, pc, num_frames, voices, active_voice,
                   pending_events, sort_required, start_time, position,
                   render_time, segments, applied_events, blocks_rendered>>

SamplerSend == SamplerSendOf(SamplerEvents(events_sent + 1), MaxSamplerEvents)

\* process_audio is called on a block of `frames` frames.  The block
\* starts where the last one ended or, being a later chunk of the same
\* callback, at the same start time.
SamplerBegin(limit, frames) ==
    /\ pc = "idle"
    /\ blocks_rendered < limit
    /\ num_frames' \in frames
    /\ start_time' \in IF blocks_rendered = 0 THEN {from_samples(0)}
                        ELSE {start_time, render_time}
    /\ sort_required' = FALSE
    /\ segments' = << >>
    /\ pc' = "read_events"
    /\ UNCHANGED <<engine_vars, voices, active_voice, event_receiver,
                   pending_events, position, render_time, applied_events,
                   events_sent, blocks_rendered>>

SamplerProcessAudio == SamplerBegin(MaxSamplerBlocks, SamplerBlockFrames)

\* read_events: recv() returned an event, which is pushed.
SamplerReadEvent ==
    /\ pc = "read_events"
    /\ event_receiver # << >>
    /\ pending_events' = Append(pending_events, Head(event_receiver))
    /\ event_receiver' = Tail(event_receiver)
    /\ sort_required' = TRUE
    /\ UNCHANGED <<engine_vars, pc, num_frames, voices, active_voice, start_time,
                   position, render_time, segments, applied_events, events_sent,
                   blocks_rendered>>

\* read_events: recv() found the channel empty; the events are sorted if
\* any was pushed, and process_audio sets out at frame 0.
SamplerReadDone ==
    /\ pc = "read_events"
    /\ event_receiver = << >>
    /\ pending_events' = IF sort_required THEN SortByTime(pending_events)
                         ELSE pending_events
    /\ position' = 0
    /\ render_time' = start_time
    /\ pc' = "render"
    /\ UNCHANGED <<engine_vars, num_frames, voices, active_voice, event_receiver,
                   sort_required, start_time, segments, applied_events,
                   events_sent, blocks_rendered>>

\* One turn of process_audio's loop: the next render point, the voices
\* rendered up to it, the event applied.
SamplerRender ==
    /\ pc = "render"
    /\ position < num_frames
    /\ LET point == next_render_point(pending_events, start_time, render_time,
                                      num_frames)
           frames == point.end_frame - position
           rendered == process_voices(voices, frames)
           applied == IF point.found
                      THEN process_event(rendered, active_voice, point.event)
                      ELSE [voices |-> rendered, active_voice |-> active_voice]
       IN  /\ pending_events' = point.rest
           /\ IF point.end_frame < position \/ point.end_frame > num_frames
              THEN \* end_frame - position underflows, or the slice runs
                   \* past the block: the thread panics
                   /\ pc' = "panicked"
                   /\ UNCHANGED <<voices, active_voice, position, render_time,
                                  segments, applied_events>>
              ELSE /\ voices' = applied.voices
                   /\ active_voice' = applied.active_voice
                   /\ position' = position + frames
                   /\ render_time' = incremented_by_samples(render_time, frames)
                   /\ segments' = Append(segments,
                                         [first |-> position, frames |-> frames,
                                          voices |-> voices])
                   /\ applied_events' =
                         IF point.found
                         THEN Append(applied_events,
                                     [event |-> point.event,
                                      frame |-> position + frames,
                                      lookup_position |-> position,
                                      lookup_time |-> render_time,
                                      block_start |-> start_time,
                                      block_frames |-> num_frames,
                                      block |-> blocks_rendered + 1,
                                      segment |-> Len(segments) + 1,
                                      before |-> rendered,
                                      after_of |-> active_voice,
                                      pending_with |-> EventIds(point.rest),
                                      after |-> applied.voices,
                                      active_after |-> applied.active_voice])
                         ELSE applied_events
                   /\ pc' = "render"
    /\ UNCHANGED <<engine_vars, num_frames, event_receiver, sort_required,
                   start_time, events_sent, blocks_rendered>>

\* process_audio's loop has ended: it returns.
SamplerReturn ==
    /\ pc = "render"
    /\ position >= num_frames
    /\ pc' = "idle"
    /\ blocks_rendered' = blocks_rendered + 1
    /\ UNCHANGED <<engine_vars, num_frames, voices, active_voice, event_receiver,
                   pending_events, sort_required, start_time, position,
                   render_time, segments, applied_events, events_sent>>

\* SpecVoices: the sampler rendering blocks of 10000 frames, with Start
\* events for two positions of the sample.

\* How many events the control side sends, and how many blocks are
\* rendered, in one behaviour of SpecVoices.
MaxVoiceEvents == 3
MaxVoiceBlocks == 1

VoiceTimes == {from_samples(0), from_samples(1500), from_samples(2000)}

VoiceEvents(id) ==
    {SamplerStart(id, time, at) :
         time \in VoiceTimes, at \in {from_samples(0), from_samples(1500)}}
    \cup {SamplerStop(id, time) : time \in VoiceTimes}

VoiceSend == SamplerSendOf(VoiceEvents(events_sent + 1), MaxVoiceEvents)

VoiceProcessAudio == SamplerBegin(MaxVoiceBlocks, {10000})

NextVoices ==
    \/ VoiceSend
    \/ VoiceProcessAudio
    \/ SamplerReadEvent
    \/ SamplerReadDone
    \/ SamplerRender
    \/ SamplerReturn

SpecVoices == Init /\ [][NextVoices]_vars

\* SpecSegments: the sampler rendering blocks of 512 frames (or of none),
\* with events in the block, within the last sample before its end, and
\* at its end.

\* How many events the control side sends, and how many blocks are
\* rendered, in one behaviour of SpecSegments.
MaxSegmentEvents == 2
MaxSegmentBlocks == 2

SegmentTimes == {from_samples(256), from_samples(512) - 1, from_samples(512)}

SegmentEvents(id) ==
    {SamplerStart(id, time, from_samples(0)) : time \in SegmentTimes}
    \cup {SamplerStop(id, time) : time \in SegmentTimes}

SegmentSend == SamplerSendOf(SegmentEvents(events_sent + 1), MaxSegmentEvents)

SegmentProcessAudio == SamplerBegin(MaxSegmentBlocks, {0, 512})

NextSegments ==
    \/ SegmentSend
    \/ SegmentProcessAudio
    \/ SamplerReadEvent
    \/ SamplerReadDone
    \/ SamplerRender
    \/ SamplerReturn

\* process_audio runs on once it is called: none of its steps waits on
\* the control side.
SpecSegments ==
    /\ Init /\ [][NextSegments]_vars
    /\ WF_vars(SamplerReadEvent)
    /\ WF_vars(SamplerReadDone)
    /\ WF_vars(SamplerRender)
    /\ WF_vars(SamplerReturn)

NextSampler ==
    \/ SamplerSend
    \/ SamplerProcessAudio
    \/ SamplerReadEvent
    \/ SamplerReadDone
    \/ SamplerRender
    \/ SamplerReturn

SpecSampler == Init /\ [][NextSampler]_vars

-----------------------------------------------------------------------------
(* SpecSamplerFlood: the control side sends the sampler more events, all   *)
(* for a time far ahead, than MAX_PENDING_EVENTS.                          *)

\* How many events the control side sends, and how many blocks are
\* rendered, in one behaviour of SpecSamplerFlood.
MaxFloodEvents == 11
MaxFloodBlocks == 2

\* A time no block of the behaviour reaches.
FarFuture == from_samples(1000000)

FloodEvents(id) ==
    {SamplerStart(id, FarFuture, from_samples(0)), SamplerStop(id, FarFuture)}

FloodSend == SamplerSendOf(FloodEvents(events_sent + 1), MaxFloodEvents)

FloodProcessAudio == SamplerBegin(MaxFloodBlocks, {512})

NextSamplerFlood ==
    \/ FloodSend
    \/ FloodProcessAudio
    \/ SamplerReadEvent
    \/ SamplerReadDone
    \/ SamplerRender
    \/ SamplerReturn

SpecSamplerFlood == Init /\ [][NextSamplerFlood]_vars

-----------------------------------------------------------------------------
(* SpecOscillator: one OscillatorDspProcess, process_audio called block    *)
(* after block with the parameter map of the moment.                       *)

\* How many blocks are rendered, and the most frames a block has, in one
\* behaviour of SpecOscillator.
MaxOscillatorBlocks == 2
MaxOscillatorFrames == 3

\* frequency / sample_rate, in PhaseResolution-ths: from 0 Hz to above the
\* sample rate.
OscillatorFrequencies == 0..(PhaseResolution + 1)

OscillatorGains == {1, 2}

\* The parameter maps: each of the two parameters there or missing.
OscillatorParameterMaps ==
    {[id \in ids |-> IF id = frequency_id THEN frequency ELSE gain] :
         ids \in SUBSET {frequency_id, gain_id},
         frequency \in OscillatorFrequencies,
         gain \in OscillatorGains}

\* The graph calls process_audio on a zeroed output buffer.
OscillatorProcessAudio ==
    /\ pc = "idle"
    /\ oscillator_blocks < MaxOscillatorBlocks
    /\ \E parameters \in OscillatorParameterMaps, frames \in 1..MaxOscillatorFrames :
          LET result == oscillator_process_audio(phase,
                                                 [frame \in 1..frames |-> Silence],
                                                 parameters)
          IN  /\ phase' = result.phase
              /\ oscillator_output' = result.output
              /\ oscillator_parameters' = parameters
              /\ pc' = IF result.panicked THEN "panicked" ELSE "idle"
    /\ oscillator_blocks' = oscillator_blocks + 1
    /\ UNCHANGED <<processor_vars, graph_vars, output_buffer, offset, num_frames,
                   num_channels, sort_index, next_id, history_vars,
                   transport_history, chunks, drained_commands, sampler_vars,
                   id_vars>>

NextOscillator == OscillatorProcessAudio

SpecOscillator == Init /\ [][NextOscillator]_vars

-----------------------------------------------------------------------------
(* SpecId: the threads call Id::generate, one call of a thread after the   *)
(* other, the calls of different threads in any interleaving.              *)

\* How many calls of generate one behaviour of SpecId has.
MaxIdCalls == 4

id_unchanged == <<processor_vars, graph_vars, audio_vars, next_id, history_vars,
                  transport_history, chunks, drained_commands, sampler_vars,
                  oscillator_vars>>

\* A thread calls Id::generate.
IdCall(thread) ==
    /\ id_calls[thread].pc = "idle"
    /\ Len(id_returned) + Cardinality({t \in IdThreads : id_calls[t].pc # "idle"})
           < MaxIdCalls
    /\ id_calls' = [id_calls EXCEPT ![thread] =
                        [pc |-> "fetch_add", value |-> 0, invoked |-> id_clock + 1]]
    /\ id_clock' = id_clock + 1
    /\ UNCHANGED <<id_unchanged, NEXT, id_returned>>

\* A read of NEXT and a write of the value read plus one, as two steps.
fetch_add_LoadThenStore(thread) ==
    \/ /\ id_calls[thread].pc = "fetch_add"
       /\ id_calls' = [id_calls EXCEPT ![thread].pc = "store",
                                       ![thread].value = NEXT]
       /\ UNCHANGED NEXT
    \/ /\ id_calls[thread].pc = "store"
       /\ NEXT' = id_calls[thread].value + 1
       /\ id_calls' = [id_calls EXCEPT ![thread].pc = "return"]

\* NEXT.fetch_add(1, Ordering::Relaxed): one atomic read-modify-write,
\* which returns the value NEXT had.
fetch_add(thread) ==
    /\ id_calls[thread].pc = "fetch_add"
    /\ NEXT' = NEXT + 1
    /\ id_calls' = [id_calls EXCEPT ![thread].pc = "return",
                                    ![thread].value = NEXT]

IdFetchAdd(thread) ==
    /\ fetch_add(thread)
    /\ UNCHANGED <<id_unchanged, id_returned, id_clock>>

\* generate returns Self(value).
IdReturn(thread) ==
    /\ id_calls[thread].pc = "return"
    /\ id_returned' = Append(id_returned,
                             [thread |-> thread,
                              value |-> id_calls[thread].value,
                              invoked |-> id_calls[thread].invoked,
                              returned |-> id_clock + 1])
    /\ id_clock' = id_clock + 1
    /\ id_calls' = [id_calls EXCEPT ![thread] = NotCalling]
    /\ UNCHANGED <<id_unchanged, NEXT>>

NextId ==
    \/ \E thread \in IdThreads : IdCall(thread)
    \/ \E thread \in IdThreads : IdFetchAdd(thread)
    \/ \E thread \in IdThreads : IdReturn(thread)

SpecId == Init /\ [][NextId]_vars

-----------------------------------------------------------------------------
(* Properties of DspGraph (checked under SpecGraph).                       *)

InBlock == pc \in {"dsps", "returned"}

\* Where node n stands in the nodes processed so far in this block.
ProcessedIndex(n) == IndexOf(processed, n)

\* C1: after every call to DspGraph.process returns, whatever commands
\* built the graph, every buffer of the pool is free and carries no
\* endpoint tag; the assertion that ends process never fails.
C1_PoolFreeAfterProcess ==
    /\ pc # "panicked"
    /\ pc \in {"returned", "idle"} =>
          /\ buffer_pool.available = BUFFER_POOL_CAPACITY
          /\ buffer_pool.assigned = << >>

C1_Witness ==
    /\ pc = "returned"
    /\ Len(processed) >= 2
    /\ output_endpoint # << >>
    /\ output_buffer # entry_output

\* C4: on an acyclic graph every node is processed, each after all the
\* nodes with an edge into it; and when a node is about to be processed,
\* the pool holds, for each such source, the buffer tagged with the
\* source's output endpoint, holding the source's output of this block.
C4_SourcesProcessedFirst ==
    (InBlock /\ Acyclic(graph_nodes, graph_edges)) =>
        /\ Range(topological_sort) = graph_nodes
        /\ \A e \in LiveEdges(graph_nodes, graph_edges) :
              IndexOf(topological_sort, e[1]) < IndexOf(topological_sort, e[2])
        /\ \A i \in 1..Len(processed) : processed[i] = topological_sort[i]
        /\ (pc = "dsps" /\ sort_index <= Len(topological_sort)) =>
              \A u \in IncomingNodes(graph_edges, topological_sort[sort_index])
                       \cap graph_nodes :
                  /\ u \in Range(processed)
                  /\ HasAssigned(buffer_pool, Endpoint(u))
                  /\ AssignedBuffer(buffer_pool, Endpoint(u))
                        = node_outputs[ProcessedIndex(u)]
        /\ pc = "returned" => Range(processed) = graph_nodes

C4_Witness ==
    /\ pc = "dsps"
    /\ Acyclic(graph_nodes, graph_edges)
    /\ graph_nodes = {1, 2, 3}
    /\ {<<3, 1>>, <<2, 1>>} \subseteq graph_edges
    /\ sort_index = 3
    /\ topological_sort[sort_index] = 1

\* C5: when the connections form a cycle (a self-loop included), the order
\* the sort leaves lists no node twice and no node of a cycle, and the
\* block ends: process_dsp runs at most once per node of the graph, and in
\* the loop a next step is always there to take.
C5_CycleLeftOutAndBlockEnds ==
    InBlock =>
        /\ \A n \in graph_nodes :
              OnCycle(graph_nodes, graph_edges, n) => n \notin Range(topological_sort)
        /\ \A i, j \in 1..Len(topological_sort) :
              topological_sort[i] = topological_sort[j] => i = j
        /\ Range(topological_sort) \subseteq graph_nodes
        /\ rendered_in_callback = Len(processed)
        /\ rendered_in_callback <= Cardinality(graph_nodes)
        /\ pc = "dsps" =>
              \/ sort_index <= Len(topological_sort)
              \/ sort_index = Len(topological_sort) + 1

C5_Witness ==
    /\ pc = "returned"
    /\ OnCycle(graph_nodes, graph_edges, 1)
    /\ OnCycle(graph_nodes, graph_edges, 2)
    /\ <<2, 2>> \notin graph_edges
    /\ processed = <<3>>

\* C7: removing a node that is in the graph takes it out of the graph and
\* sends it, once, to the garbage-collector channel.  Every node built so
\* far is in exactly one place, the graph or the channel (none was dropped
\* by the audio thread), a node sent to the channel never comes back, and
\* the graph's node count is the nodes added less the nodes removed.
C7_EveryNodeInOnePlace ==
    LET disposed == Range(garbage_collection_tx)
    IN  /\ graph_nodes \cup disposed = 1..(next_id - 1)
        /\ graph_nodes \cap disposed = {}
        /\ Cardinality(disposed) = Len(garbage_collection_tx)
        /\ Cardinality(graph_nodes) = (next_id - 1) - Len(garbage_collection_tx)

C7_RemoveStep ==
    \A id \in Ids :
        (GraphCommand(remove_dsp(id)) /\ id \in graph_nodes) =>
            /\ graph_nodes' = graph_nodes \ {id}
            /\ garbage_collection_tx' = Append(garbage_collection_tx, id)

C7_NeverComesBack ==
    \A id \in Range(garbage_collection_tx) :
        id \notin graph_nodes' /\ id \in Range(garbage_collection_tx')

SourcesSumAt(i, l) ==
    LET sources == IncomingNodes(graph_edges, processed[i]) \cap Range(processed)
        sample_of == [u \in sources |-> get_sample(node_outputs[ProcessedIndex(u)], l)]
    IN  SumOver(sample_of, sources)

\* The locations at which the input of the i-th node or one of its
\* sources' outputs holds a non-zero sample.
SoundingLocations(i) ==
    DOMAIN node_inputs[i].samples \cup
    UNION {DOMAIN node_outputs[ProcessedIndex(u)].samples :
              u \in IncomingNodes(graph_edges, processed[i]) \cap Range(processed)}

\* C9: with no output endpoint set, process leaves the caller's buffer as
\* it received it, whatever the graph holds; the buffer changes only when
\* an output endpoint is set, and then by that node's output of the block.
C9_NoEndpointNoOutput ==
    pc = "returned" =>
        /\ output_endpoint = << >> => output_buffer = entry_output
        /\ output_buffer # entry_output =>
              /\ output_endpoint # << >>
              /\ output_endpoint[1].dsp_id \in Range(processed)
              /\ output_buffer =
                    add_from(entry_output,
                             node_outputs[ProcessedIndex(output_endpoint[1].dsp_id)],
                             0, num_channels, num_frames)

C9_Witness ==
    /\ pc = "returned"
    /\ output_endpoint = << >>
    /\ Len(processed) = 3
    /\ graph_edges # {}
    /\ ~IsZero(entry_output)

\* C10: the input buffer a node is handed equals, sample by sample over the
\* clipped frames and channels, the sum of the outputs of the nodes
\* connected to it; it is zero when none is.
C10_InputIsSumOfSources ==
    InBlock =>
        \A i \in 1..Len(processed) :
            /\ \A l \in SoundingLocations(i) :
                  get_sample(node_inputs[i], l) =
                      IF l[1] < num_channels /\ l[2] < num_frames
                      THEN SourcesSumAt(i, l) ELSE 0
            /\ IncomingNodes(graph_edges, processed[i]) = {} =>
                  IsZero(node_inputs[i])

C10_Witness ==
    /\ pc = "returned"
    /\ graph_edges = {<<1, 2>>, <<1, 3>>, <<2, 3>>}
    /\ processed = <<1, 2, 3>>
    /\ get_sample(node_inputs[3], location_to_write(1)) = 2 * value_to_write(1)
    /\ get_sample(node_inputs[3], location_to_write(2)) = value_to_write(2)

\* The nodes with an edge from node u that were processed in this block.
ProcessedConsumers(u) ==
    {n \in Range(processed) : u \in IncomingNodes(graph_edges, n)}

\* C11: a source's output is fanned out whole.  While the block's nodes
\* are processed, every node processed so far has exactly one buffer in
\* the pool tagged with its output endpoint, and that buffer holds the
\* node's output unchanged, however many consumers have read it; a
\* consumer whose only source is u was handed u's output, and when u is
\* also the output endpoint the caller's buffer received that same output.
C11_FanOutKeepsTagAndSamples ==
    /\ pc = "dsps" =>
          /\ Len(buffer_pool.assigned) = Len(processed)
          /\ \A i \in 1..Len(processed) :
                /\ Cardinality(AssignedIndices(buffer_pool, Endpoint(processed[i]))) = 1
                /\ AssignedBuffer(buffer_pool, Endpoint(processed[i])) = node_outputs[i]
    /\ InBlock =>
          \A i \in 1..Len(processed) :
              \A u \in Range(processed) :
                  IncomingNodes(graph_edges, processed[i]) \cap Range(processed) = {u} =>
                      node_inputs[i] =
                          add_from(PoolBuffer, node_outputs[ProcessedIndex(u)], 0,
                                   num_channels, num_frames)
    /\ (pc = "returned" /\ output_endpoint # << >>) =>
          \A u \in Range(processed) :
              output_endpoint[1] = Endpoint(u) =>
                  output_buffer =
                      add_from(entry_output, node_outputs[ProcessedIndex(u)], 0,
                               num_channels, num_frames)

C11_Witness ==
    /\ pc = "returned"
    /\ graph_edges = {<<1, 2>>, <<1, 3>>}
    /\ Cardinality(ProcessedConsumers(1)) = 2
    /\ output_endpoint = <<Endpoint(1)>>
    /\ get_sample(node_inputs[ProcessedIndex(2)], location_to_write(1)) = value_to_write(1)
    /\ get_sample(node_inputs[ProcessedIndex(3)], location_to_write(1)) = value_to_write(1)
    /\ get_sample(output_buffer, location_to_write(1)) = value_to_write(1)

\* The locations at which the caller's buffer differs from what it held
\* when process received it.
TouchedLocations ==
    {l \in DOMAIN output_buffer.samples \cup DOMAIN entry_output.samples :
        get_sample(output_buffer, l) # get_sample(entry_output, l)}

\* C14: process works on min(frames, maximum) frames and min(channels,
\* maximum) channels of the caller's buffer.  Every add_from of the block
\* asks for a region that lies within the pool buffer and within the
\* caller's buffer, the buffers of the nodes hold samples only within the
\* pool buffer's shape, and when process returns the caller's buffer
\* differs from what it held only within the clipped region: what lies
\* beyond the maxima is as it was.
C14_ClippedToPoolMaxima ==
    InBlock =>
        /\ num_frames = Min(entry_output.num_frames, MAXIMUM_NUMBER_OF_FRAMES)
        /\ num_channels = Min(entry_output.num_channels, MAXIMUM_NUMBER_OF_CHANNELS)
        /\ num_frames <= PoolBuffer.num_frames
        /\ num_channels <= PoolBuffer.num_channels
        /\ num_frames <= output_buffer.num_frames
        /\ num_channels <= output_buffer.num_channels
        /\ \A i \in 1..Len(processed) :
              /\ \A l \in DOMAIN node_outputs[i].samples : InRange(PoolBuffer, l)
              /\ \A l \in DOMAIN node_inputs[i].samples : InRange(PoolBuffer, l)
        /\ \A l \in TouchedLocations : l[1] < num_channels /\ l[2] < num_frames
        /\ \A l \in DOMAIN entry_output.samples :
              (l[1] >= MAXIMUM_NUMBER_OF_CHANNELS \/ l[2] >= MAXIMUM_NUMBER_OF_FRAMES)
              => get_sample(output_buffer, l) = get_sample(entry_output, l)

C14_Witness ==
    /\ pc = "returned"
    /\ \/ entry_output.num_frames > MAXIMUM_NUMBER_OF_FRAMES
       \/ entry_output.num_channels > MAXIMUM_NUMBER_OF_CHANNELS
    /\ TouchedLocations # {}
    /\ \E l \in DOMAIN output_buffer.samples : ~InRange(PoolBuffer, l)

\* C17: connect_to_output(e) makes e the output endpoint, whatever
\* endpoint was set before, and changes neither the nodes, the edges, the
\* sort flag nor the cached order.  In every block rendered afterwards the
\* caller's buffer receives the output of e's node alone (and nothing when
\* that node was not processed): a replaced endpoint contributes nothing.
C17_ConnectStep ==
    \A id \in Ids :
        GraphCommand(connect_to_output(Endpoint(id))) =>
            /\ output_endpoint' = <<Endpoint(id)>>
            /\ UNCHANGED <<graph_nodes, graph_edges, graph_needs_sort,
                           topological_sort>>

C17_OnlyCurrentEndpointMixed ==
    (pc = "returned" /\ output_endpoint # << >>) =>
        LET id == output_endpoint[1].dsp_id
        IN  /\ output_endpoint[1] = Endpoint(id)
            /\ output_buffer =
                  IF id \in Range(processed)
                  THEN add_from(entry_output, node_outputs[ProcessedIndex(id)], 0,
                                num_channels, num_frames)
                  ELSE entry_output

C17_ConnectToOutputReplaces ==
    /\ []C17_OnlyCurrentEndpointMixed
    /\ [][C17_ConnectStep]_vars

C17_Witness ==
    /\ pc = "returned"
    /\ replaced_endpoint = <<Endpoint(1)>>
    /\ output_endpoint = <<Endpoint(2)>>
    /\ graph_edges = {}
    /\ {1, 2} \subseteq Range(processed)
    /\ get_sample(output_buffer, location_to_write(2)) = value_to_write(2)
    /\ get_sample(output_buffer, location_to_write(1)) = 0

\* Adding the edge source -> destination would close a cycle: both are
\* nodes of the graph, the edge is not there, and the destination already
\* reaches the source (or is the source).
WouldFormCycle(source, destination) ==
    /\ source \in graph_nodes
    /\ destination \in graph_nodes
    /\ <<source, destination>> \notin graph_edges
    /\ source \in ReachableFrom(graph_nodes, graph_edges, {destination})

\* C13: an add_connection whose connection would form a cycle is ignored:
\* the edge set after the command is the edge set before it.
C13_CycleFormingConnectionIgnored ==
    [][\A source \in Ids, destination \in Ids :
          (/\ GraphCommand(add_connection(Connection(source, destination)))
           /\ WouldFormCycle(source, destination))
          => graph_edges' = graph_edges]_vars

-----------------------------------------------------------------------------
(* Properties of the callback and the command channel (checked under Spec).*)

Rendering == pc \in {"graph", "dsps"}

\* C2: the audio thread applies the commands in the order the control
\* thread sent them, one at a time and none skipped, and within a callback
\* only before rendering: once process_commands has returned, no command
\* is applied until the next callback.
C2_OrderHolds ==
    /\ last_applied.seq = applied_count
    /\ \A i \in 1..Len(command_rx) : command_rx[i].seq = applied_count + i

C2_AppliedOnlyBeforeRender ==
    applied_count' # applied_count =>
        /\ pc = "drain"
        /\ applied_count' = applied_count + 1
        /\ last_applied'.seq = applied_count'
        /\ rendered_in_callback = 0
        /\ processed = << >>
        /\ IsZero(output_buffer)

C2_CommandsInOrderBeforeRender ==
    /\ []C2_OrderHolds
    /\ [][C2_AppliedOnlyBeforeRender]_vars

C2_Witness ==
    /\ pc = "dsps"
    /\ drained_in_callback = 3
    /\ processed = <<1>>
    /\ output_endpoint = <<Endpoint(1)>>

\* C3: whatever the interleaving of sends and callbacks, the commands sent
\* so far are the commands applied followed by the commands still in the
\* channel (none lost, none twice); once a callback has left
\* process_commands the channel holds only commands sent during that very
\* callback, so a command is applied in the callback it was sent during or
\* in the next one.
C3_AppliedByNextCallback ==
    /\ applied_count + Len(command_rx) = sent_count
    /\ \A i \in 1..Len(command_rx) :
          /\ command_rx[i].seq = applied_count + i
          /\ command_rx[i].sent_during <= callback_count
          /\ command_rx[i].sent_during >=
                (IF pc = "drain" THEN callback_count - 1 ELSE callback_count)
          /\ (Rendering \/ pc = "returned") => command_rx[i].sent_in_callback
    /\ applied_count > 0 =>
          /\ last_applied.applied_in >= last_applied.sent_during
          /\ last_applied.applied_in <= last_applied.sent_during + 1

C3_Witness ==
    /\ pc = "dsps"
    /\ callback_count = 2
    /\ drained_in_callback = 1
    /\ last_applied.sent_in_callback
    /\ last_applied.sent_during = 1
    /\ last_applied.applied_in = 2

\* C8: a callback that finds the transport stopped once the commands are
\* drained returns with the output buffer all zero, the transport position
\* where it was and no notification sent; nothing is rendered while the
\* transport is stopped.
C8_SilentWhileStopped ==
    /\ Rendering => started
    /\ (pc = "returned" /\ ~started) =>
          /\ IsZero(output_buffer)
          /\ sample_position = entry_position
          /\ Len(notification_tx) = entry_notifications
          /\ rendered_in_callback = 0

C8_Witness ==
    /\ pc = "returned"
    /\ ~started
    /\ sample_position > 0
    /\ graph_nodes # {}
    /\ ~IsZero(entry_output)

\* C15: the transport position is the number of frames rendered in started
\* callbacks since the most recent Start that set the transport going:
\* after a Stop followed by a Start the count begins again at that Start.
C15_PositionCountsFromLastStart ==
    /\ sample_position = frames_since_start
    /\ current_time = Timestamp(frames_since_start, SAMPLE_RATE)

\* C24: when a callback's buffer has more than 512 frames, every chunk is
\* handed to DspGraph.process with the transport time of the chunk's first
\* frame, sample_position plus the chunk's offset: the start times the
\* nodes would get from successive callbacks of at most 512 frames.
C24_ChunkTimeIsOfItsFirstFrame ==
    \A k \in 1..Len(chunks) :
        chunks[k].start_time =
            Timestamp(entry_position + chunks[k].offset, SAMPLE_RATE)

\* The callback is in process_graph or has just left it.
InCallback == pc \notin {"idle", "drain"}

ChunksCoverBufferOnce ==
    /\ \A k \in 1..Len(chunks) :
          /\ chunks[k].offset =
                IF k = 1 THEN 0 ELSE chunks[k - 1].offset + chunks[k - 1].frames
          /\ chunks[k].frames >= 1
          /\ chunks[k].frames <= 512
    /\ InCallback =>
          /\ \A k \in 1..Len(chunks) :
                chunks[k].offset + chunks[k].frames <= output_buffer.num_frames
          /\ Len(chunks) <= (output_buffer.num_frames + 511) \div 512
    /\ pc = "graph" =>
          offset = IF chunks = << >> THEN 0
                   ELSE chunks[Len(chunks)].offset + chunks[Len(chunks)].frames
    /\ (pc = "returned" /\ started) =>
          /\ chunks # << >>
          /\ chunks[Len(chunks)].offset + chunks[Len(chunks)].frames
                = output_buffer.num_frames
          /\ sample_position = entry_position + output_buffer.num_frames
    /\ (pc = "returned" /\ ~started) =>
          /\ chunks = << >>
          /\ sample_position = entry_position

\* C25: process_graph slices an output buffer of F frames into
\* consecutive, non-overlapping chunks of at most 512 frames that together
\* cover frames [0, F) exactly once; the loop terminates (the callback
\* that entered process_graph leaves it), and the started callback then
\* advances sample_position by exactly F.
C25_ChunksCoverAndLoopEnds ==
    /\ []ChunksCoverBufferOnce
    /\ (pc = "graph") ~> (pc = "returned")

\* A started callback of 1024 frames was rendered as the chunks [0, 512)
\* and [512, 1024), and the position advanced by 1024.
C25_Witness ==
    /\ pc = "returned"
    /\ started
    /\ output_buffer.num_frames = 1024
    /\ Len(chunks) = 2
    /\ chunks[1].offset = 0 /\ chunks[1].frames = 512
    /\ chunks[2].offset = 512 /\ chunks[2].frames = 512
    /\ sample_position = entry_position + 1024

-----------------------------------------------------------------------------
(* Properties of the position notifications (checked under SpecTransport). *)

\* C16: a Position notification is sent only by a callback that renders
\* (the transport is started) and finds the periodic timer elapsed; it
\* carries the transport position after the callback's frames were added.
\* Notifications come no more often than once per interval of
\* sample_rate / 30 samples rendered, none lies ahead of the position, and
\* their timestamps never decrease along the channel.
C16_NotificationStep ==
    notification_tx' # notification_tx =>
        /\ started
        /\ pc = "graph"
        /\ PositionElapsed(position_counter, output_buffer.num_frames)
        /\ sample_position' = sample_position + output_buffer.num_frames
        /\ notification_tx' = Append(notification_tx, current_time')

C16_NotificationsInOrder ==
    /\ Len(notification_tx) * PositionInterval <= sample_position
    /\ position_counter < PositionInterval
    /\ \A i \in 1..Len(notification_tx) :
          /\ notification_tx[i].samples <= sample_position
          /\ notification_tx[i].rate = SAMPLE_RATE
          /\ \A j \in 1..Len(notification_tx) :
                i < j => notification_tx[i].samples <= notification_tx[j].samples

C16_PositionNotifiedWhenElapsed ==
    /\ []C16_NotificationsInOrder
    /\ [][C16_NotificationStep]_vars

C16_Witness ==
    /\ Len(notification_tx) = 2
    /\ notification_tx[1].samples < notification_tx[2].samples
    /\ notification_tx[2].samples = sample_position
    /\ pc = "returned"

-----------------------------------------------------------------------------
(* The cached topological order (checked under SpecGraph).                 *)

\* The cached order is an order of the graph as it stands.
SortIsCurrent == topological_sort \in KahnOrders(graph_nodes, graph_edges)

C26_CacheState ==
    /\ ~graph_needs_sort => SortIsCurrent
    /\ pc = "dsps" =>
          /\ ~graph_needs_sort
          /\ SortIsCurrent
          /\ \A k \in 1..Len(topological_sort) : topological_sort[k] \in graph_nodes

C26_CacheStep ==
    /\ (GraphAddDsp \/ GraphRemoveDsp \/ GraphAddConnection \/ GraphRemoveConnection)
          => graph_needs_sort'
    /\ topological_sort' # topological_sort => (graph_needs_sort /\ GraphProcess)
    /\ GraphProcess =>
          /\ ~graph_needs_sort'
          /\ ~graph_needs_sort => topological_sort' = topological_sort

\* C26: whenever DspGraph.process renders nodes, the cached topological
\* order is the order of the graph as it stands at that moment: each
\* AddDsp, RemoveDsp, AddConnection and RemoveConnection sets the dirty
\* flag, the sort is re-run at the start of a block only when the flag is
\* set, and the flag is cleared once the sort completes.
C26_SortedOrderIsCurrent == []C26_CacheState /\ [][C26_CacheStep]_vars

\* Nodes 1 and 2 were added and 2 connected to 1 after node 1 was first
\* rendered alone: the block renders them in the order 2, 1.
C26_Witness ==
    /\ pc = "dsps"
    /\ graph_nodes = {1, 2}
    /\ graph_edges = {<<2, 1>>}
    /\ topological_sort = <<2, 1>>
    /\ ~graph_needs_sort

-----------------------------------------------------------------------------
(* Properties of the sampler (checked under SpecSampler).                  *)

\* The number of the block the recorded segments belong to.
SegmentsBlock == IF pc = "idle" THEN blocks_rendered ELSE blocks_rendered + 1

\* The applied event falls inside the block it was applied in.
DueInBlock(applied) ==
    /\ applied.block_start <= applied.event.time
    /\ applied.event.time <
           incremented_by_samples(applied.block_start, applied.block_frames)

\* C18: a pending event whose time t lies inside the block
\* (block_start <= t < block_end) is applied exactly at frame
\* t - block_start: the segment rendered before it ends at that frame and
\* was rendered with the voices as they were before the event, the segment
\* after it starts at that frame with the voices the event left.
C18_EventAppliedAtItsFrame ==
    \A k \in 1..Len(applied_events) :
        LET applied == applied_events[k]
        IN  DueInBlock(applied) =>
              /\ applied.frame =
                     get_samples(applied.event.time - applied.block_start)
              /\ applied.block = SegmentsBlock =>
                    LET segment == segments[applied.segment]
                    IN  /\ segment.first + segment.frames = applied.frame
                        /\ applied.before =
                               process_voices(segment.voices, segment.frames)
                        /\ applied.after =
                               process_event(applied.before,
                                             applied.after_of, applied.event).voices
                        /\ applied.segment < Len(segments) =>
                              /\ segments[applied.segment + 1].first = applied.frame
                              /\ segments[applied.segment + 1].voices = applied.after

\* A Start for sample 1500 was applied at frame 1500 of a block starting
\* at 0: frames 0..1499 were rendered with every voice stopped, the frames
\* from 1500 on with a voice fading in from the start of the sample.
C18_Witness ==
    \E k \in 1..Len(applied_events) :
        LET applied == applied_events[k]
        IN  /\ applied.event.event_type = "Start"
            /\ applied.event.time = from_samples(1500)
            /\ applied.block_start = from_samples(0)
            /\ applied.block = SegmentsBlock
            /\ applied.frame = 1500
            /\ segments[applied.segment].first = 0
            /\ segments[applied.segment].frames = 1500
            /\ \A i \in VoiceIndices : is_stopped(segments[applied.segment].voices[i])
            /\ applied.segment < Len(segments)
            /\ segments[applied.segment + 1].first = 1500
            /\ \E i \in VoiceIndices :
                  segments[applied.segment + 1].voices[i] =
                      start_from_position(StoppedVoice, 0)

\* C19: an event whose time is earlier than the current render position
\* is applied at the current render position.  It is never dropped (every
\* event sent is in the channel, pending or applied, and no event of a
\* time before its end is left pending when a block returns), never
\* applied at an earlier frame, and no segment has a negative length.
C19_PastEventAppliedAtRenderPosition ==
    /\ \A k \in 1..Len(applied_events) :
          LET applied == applied_events[k]
          IN  /\ applied.frame >= applied.lookup_position
              /\ applied.event.time < applied.lookup_time =>
                    applied.frame = applied.lookup_position
    /\ pc # "panicked"
    /\ \A k \in 1..Len(segments) : segments[k].frames >= 0
    /\ 1..events_sent =
          EventIds(event_receiver) \cup EventIds(pending_events)
          \cup {applied_events[k].event.id : k \in 1..Len(applied_events)}
    /\ (pc = "idle" /\ blocks_rendered > 0) =>
          \A k \in 1..Len(pending_events) : pending_events[k].time >= render_time

\* A Start for a time the sampler had already rendered past was read in a
\* later block and started a voice at the frame the block had reached.
C19_Witness ==
    \E k \in 1..Len(applied_events) :
        LET applied == applied_events[k]
        IN  /\ applied.event.event_type = "Start"
            /\ applied.block_start > from_samples(0)
            /\ applied.event.time < applied.block_start
            /\ applied.event.time < applied.lookup_time
            /\ applied.frame = applied.lookup_position
            /\ \E i \in VoiceIndices :
                  applied.after[i] = start_from_position(StoppedVoice, 0)

\* The event applied k-th goes before the event `other` by its time, or by
\* the order of sending when the times are equal.
GoesBefore(event, other) ==
    \/ event.time < other.time
    \/ event.time = other.time /\ event.id < other.id

\* C21 as stated: the events are applied in non-decreasing order of their
\* timestamps, events of equal timestamps in the order they were sent,
\* whatever block they arrived in.
C21_AppliedInTimestampOrder ==
    \A i, j \in 1..Len(applied_events) :
        i < j => GoesBefore(applied_events[i].event, applied_events[j].event)

\* C21 amended: of two events that were both pending when the first of
\* them was applied, the one of the earlier timestamp is applied first,
\* whatever order they were sent in, and of two of equal timestamps the
\* one sent first.
C21_PendingAppliedInTimestampOrder ==
    \A i, j \in 1..Len(applied_events) :
        (i < j /\ applied_events[j].event.id \in applied_events[i].pending_with)
            => GoesBefore(applied_events[i].event, applied_events[j].event)

\* A Stop for sample 2000 was sent before a Start for sample 0, and the
\* Start was applied first.
C21_Witness ==
    \E i, j \in 1..Len(applied_events) :
        /\ i < j
        /\ applied_events[i].event.event_type = "Start"
        /\ applied_events[i].event.time = from_samples(0)
        /\ applied_events[j].event.event_type = "Stop"
        /\ applied_events[j].event.time = from_samples(2000)
        /\ applied_events[j].event.id < applied_events[i].event.id
        /\ applied_events[j].event.id \in applied_events[i].pending_with

-----------------------------------------------------------------------------
(* Properties of the sampler's voices (checked under SpecVoices).          *)

\* The position a Start event asks for, in frames of the sample.
RequestedPosition(event) == AsUsize(get_samples(event.position_in_sample))

\* The applied event is a Start that finds an active voice whose playhead
\* is at the position asked for.
Debounced(applied) ==
    /\ applied.event.event_type = "Start"
    /\ applied.after_of # << >>
    /\ applied.before[applied.after_of[1]].position =
           RequestedPosition(applied.event)

Sounding(voice) == voice.state \in {"FadingIn", "Playing"}

\* C27: on a Start event that is not debounced, the sampler first stops
\* every sounding voice (each fades out), then starts the lowest-index
\* voice that is in Stopped state from the requested position and makes
\* it the active voice; if no voice is Stopped, the start request is
\* dropped: no voice enters FadingIn and active_voice is none.
C27_StartAssignsFirstStoppedVoice ==
    \A k \in 1..Len(applied_events) :
        LET applied == applied_events[k]
            free == {i \in VoiceIndices : is_stopped(applied.before[i])}
        IN  (applied.event.event_type = "Start" /\ ~Debounced(applied)) =>
              /\ \A i \in VoiceIndices :
                    Sounding(applied.before[i]) =>
                        /\ applied.after[i].state = "FadingOut"
                        /\ applied.after[i].position = applied.before[i].position
              /\ \A i \in VoiceIndices :
                    applied.before[i].state = "FadingOut" =>
                        applied.after[i] = applied.before[i]
              /\ free # {} =>
                    /\ \E i \in free :
                          /\ \A j \in free : i <= j
                          /\ applied.after[i] =
                                [state |-> "FadingIn", remaining |-> FadeLength,
                                 position |-> RequestedPosition(applied.event)]
                          /\ applied.active_after = <<i>>
                          /\ \A j \in free \ {i} : applied.after[j] = applied.before[j]
              /\ free = {} =>
                    /\ \A i \in VoiceIndices : applied.after[i].state # "FadingIn"
                    /\ applied.active_after = << >>

\* A Start found voice 0 fading out and voice 1 sounding: voice 1 was
\* stopped, no voice was free and the request was dropped.  And before
\* that, a Start found voice 0 sounding and started voice 1.
C27_Witness ==
    /\ \E k \in 1..Len(applied_events) :
          LET applied == applied_events[k]
          IN  /\ applied.event.event_type = "Start"
              /\ ~Debounced(applied)
              /\ \A i \in VoiceIndices : ~is_stopped(applied.before[i])
              /\ \A i \in VoiceIndices : applied.after[i].state = "FadingOut"
              /\ applied.active_after = << >>
    /\ \E k \in 1..Len(applied_events) :
          LET applied == applied_events[k]
          IN  /\ applied.event.event_type = "Start"
              /\ ~Debounced(applied)
              /\ Sounding(applied.before[0])
              /\ applied.after[0].state = "FadingOut"
              /\ applied.after[1].state = "FadingIn"
              /\ applied.active_after = <<1>>

\* C28: if start(from_position) is handled while an active voice exists
\* whose playhead equals from_position, the call changes nothing: no
\* voice is stopped, none is started, and active_voice and every voice's
\* state and playhead are unchanged.
C28_StartAtPlayheadIsNoOp ==
    \A k \in 1..Len(applied_events) :
        LET applied == applied_events[k]
        IN  Debounced(applied) =>
              /\ applied.after = applied.before
              /\ applied.active_after = applied.after_of

\* A Start for position 1500 of the sample was handled when the active
\* voice, started 1500 frames before, had its playhead at 1500.
C28_Witness ==
    \E k \in 1..Len(applied_events) :
        LET applied == applied_events[k]
        IN  /\ Debounced(applied)
            /\ RequestedPosition(applied.event) = 1500
            /\ applied.frame = 1500
            /\ applied.after_of = <<0>>
            /\ applied.before[0].state = "FadingIn"
            /\ applied.after = applied.before
            /\ applied.active_after = <<0>>

\* C30: after any sequence of Start and Stop events and rendered blocks,
\* at most one voice is in FadingIn or Playing state, and if one is,
\* active_voice is its index; every other voice is Stopped or FadingOut.
C30_OneSoundingVoiceIsActive ==
    /\ Cardinality({i \in VoiceIndices : Sounding(voices[i])}) <= 1
    /\ \A i \in VoiceIndices : Sounding(voices[i]) => active_voice = <<i>>
    /\ \A i \in VoiceIndices :
          voices[i].state \in {"Stopped", "FadingIn", "Playing", "FadingOut"}

\* After two Starts voice 1 is sounding and active while voice 0 fades out.
C30_Witness ==
    /\ Sounding(voices[1])
    /\ active_voice = <<1>>
    /\ voices[0].state = "FadingOut"
    /\ Len(applied_events) >= 2

-----------------------------------------------------------------------------
(* Properties of the sub-segments (checked under SpecSegments).            *)

\* process_audio has returned from a block that had frames.
BlockReturned == pc = "idle" /\ blocks_rendered > 0 /\ num_frames > 0

\* The end time of the block rendered last.
BlockEnd == incremented_by_samples(start_time, num_frames)

\* The sub-segments rendered so far in the block follow one another from
\* frame 0 without gap or overlap, and cover the block when it returns.
SegmentsCoverBlock ==
    /\ pc # "panicked"
    /\ \A k \in 1..Len(segments) :
          /\ segments[k].first =
                IF k = 1 THEN 0 ELSE segments[k - 1].first + segments[k - 1].frames
          /\ segments[k].frames >= 0
          /\ segments[k].first + segments[k].frames <= num_frames
    /\ pc = "render" =>
          position = IF segments = << >> THEN 0
                     ELSE segments[Len(segments)].first + segments[Len(segments)].frames
    /\ BlockReturned =>
          /\ segments # << >>
          /\ segments[Len(segments)].first + segments[Len(segments)].frames = num_frames

\* An event applied in a block had a time before the block's end: every
\* event of a time at or after the end is still pending.
LaterEventsStillPending ==
    \A k \in 1..Len(applied_events) :
        applied_events[k].event.time <
            incremented_by_samples(applied_events[k].block_start,
                                   applied_events[k].block_frames)

NoEventOfBlockLeftPending ==
    BlockReturned =>
        \A k \in 1..Len(pending_events) :
            AsUsize(get_samples(pending_events[k].time - start_time)) >= num_frames

-----------------------------------------------------------------------------
(* Properties of the pending events (checked under SpecSamplerFlood).      *)

\* C20: the sampler's pending-event vector never holds more than
\* MAX_PENDING_EVENTS events, however many events the control side sends
\* between two blocks and however far ahead their times lie.
C20_PendingEventsBounded == Len(pending_events) <= MAX_PENDING_EVENTS

-----------------------------------------------------------------------------
(* Properties of the oscillator (checked under SpecOscillator).            *)

\* The parameter map lacks the frequency or the gain parameter.
ParameterMissing(parameters) ==
    frequency_id \notin DOMAIN parameters \/ gain_id \notin DOMAIN parameters

\* C22: if the parameter map lacks the oscillator's frequency parameter
\* or its gain parameter, process_audio writes no sample of the output
\* buffer (the block stays zero) and leaves the phase unchanged.
C22_MissingParameterStep ==
    (OscillatorProcessAudio /\ ParameterMissing(oscillator_parameters')) =>
        /\ phase' = phase
        /\ \A frame \in 1..Len(oscillator_output') :
              oscillator_output'[frame] = Silence
        /\ pc' = "idle"

C22_MissingParameterWritesNothing == [][C22_MissingParameterStep]_vars

\* After a block that advanced the phase, a block was rendered with the
\* gain parameter missing: its output is silent and the phase where it was.
C22_Witness ==
    /\ oscillator_blocks = 2
    /\ frequency_id \in DOMAIN oscillator_parameters
    /\ gain_id \notin DOMAIN oscillator_parameters
    /\ oscillator_parameters[frequency_id] = 1
    /\ phase = 1
    /\ Len(oscillator_output) = MaxOscillatorFrames
    /\ \A frame \in 1..Len(oscillator_output) : oscillator_output[frame] = Silence

\* C29: after every sample the oscillator's phase lies in [0,1), so the
\* wavetable index floor(phase * 8192) is always a valid index 0..8191,
\* also when the per-sample increments add up to exactly 1.
C29_PhaseBelowOne ==
    /\ 0 <= phase
    /\ phase < PhaseResolution
    /\ ~get_value(phase).out_of_range
    /\ pc # "panicked"

-----------------------------------------------------------------------------
(* Properties of Id::generate (checked under SpecId).                      *)

\* The ids handed out so far: those returned, and those a thread holds
\* and is about to return.
IdsHandedOut ==
    [k \in 1..Len(id_returned) |-> id_returned[k].value]
    \o [k \in 1..Cardinality({t \in IdThreads : id_calls[t].pc = "return"}) |->
            id_calls[CHOOSE t \in IdThreads :
                        /\ id_calls[t].pc = "return"
                        /\ Cardinality({u \in IdThreads :
                               id_calls[u].pc = "return" /\ u < t}) = k - 1].value]

\* C23: every call of Id::generate, from any thread and under any
\* interleaving of the callers, returns an Id different from the Id of
\* every other call; the values increase in call order (a call that
\* begins after another has returned gets the larger value) and no Id is
\* handed out twice.
C23_IdsDistinctAndIncreasing ==
    /\ \A i, j \in 1..Len(IdsHandedOut) :
          i # j => IdsHandedOut[i] # IdsHandedOut[j]
    /\ \A i, j \in 1..Len(id_returned) :
          id_returned[i].returned < id_returned[j].invoked =>
              id_returned[i].value < id_returned[j].value
    /\ \A i \in 1..Len(IdsHandedOut) : IdsHandedOut[i] < NEXT

\* Two calls of two threads overlapped and both returned: the thread that
\* called second did its fetch_add first and got the smaller Id.
C23_Witness ==
    \E i, j \in 1..Len(id_returned) :
        /\ id_returned[i].thread # id_returned[j].thread
        /\ id_returned[i].invoked < id_returned[j].invoked
        /\ id_returned[j].invoked < id_returned[i].returned
        /\ id_returned[j].value < id_returned[i].value

-----------------------------------------------------------------------------
(* Properties of the commands drained while stopped (checked under         *)
(* SpecStopped).                                                           *)

\* The place in drained_commands of the last command that satisfies
\* Wanted, 0 if there is none.
LastDrained(Wanted(_)) ==
    LET places == {k \in 1..Len(drained_commands) : Wanted(drained_commands[k].command)}
    IN  IF places = {} THEN 0 ELSE CHOOSE k \in places : \A other \in places : other <= k

IsTransport(command) == command.kind \in {"Start", "Stop"}

IsConnectToOutput(command) == command.kind = "ConnectToOutput"

\* The events of the parameter changes drained for node `id` from place
\* `from` on, in the order they were drained.
RECURSIVE DrainedEventsFor(_, _)
DrainedEventsFor(id, from) ==
    IF from > Len(drained_commands) THEN << >>
    ELSE LET command == drained_commands[from].command
         IN  (IF command.kind = "ParameterValueChange"
                 /\ command.change_request.dsp_id = id
              THEN <<[parameter_id |-> command.change_request.parameter_id,
                      event |-> command.change_request.event]>>
              ELSE << >>)
             \o DrainedEventsFor(id, from + 1)

\* started is true exactly when the last Start/Stop drained was a Start.
StartedIsLastTransportCommand ==
    started = (/\ LastDrained(IsTransport) > 0
               /\ drained_commands[LastDrained(IsTransport)].command.kind = "Start")

\* The graph is what the commands drained so far, while started or
\* stopped, make it: its nodes, their parameter timelines, the endpoint.
GraphIsOfDrainedCommands ==
    /\ \A id \in StoppedIds :
          LET IsOfNode(command) ==
                  command.kind \in {"AddDsp", "RemoveDsp"} /\ command.id = id
              last == LastDrained(IsOfNode)
              added == last > 0 /\ drained_commands[last].command.kind = "AddDsp"
          IN  /\ id \in graph_nodes <=> added
              /\ added => dsp_parameters[id] = DrainedEventsFor(id, last)
    /\ output_endpoint =
          IF LastDrained(IsConnectToOutput) = 0 THEN << >>
          ELSE <<drained_commands[LastDrained(IsConnectToOutput)].command.endpoint>>

\* Once process_commands has returned, the channel holds no command that
\* was sent before this callback began.
DrainedOnEveryCallback ==
    pc \notin {"idle", "drain"} =>
        \A k \in 1..Len(command_rx) :
            /\ command_rx[k].sent_during = callback_count
            /\ command_rx[k].sent_in_callback

\* C32: commands are drained and applied on every callback, also while
\* the transport is stopped: a graph mutation, parameter change or
\* ConnectToOutput enqueued while stopped is in effect in the first block
\* rendered after the next Start, and after each drain the started flag
\* is true exactly when the last Start/Stop command drained so far was
\* Start (a repeated Start or Stop changes nothing).
C32_CommandsAppliedWhileStopped ==
    /\ StartedIsLastTransportCommand
    /\ GraphIsOfDrainedCommands
    /\ DrainedOnEveryCallback

\* AddDsp and a parameter change were drained by a callback that found the
\* transport stopped and rendered nothing; the next callback drained Start
\* and is rendering its first block, with the node and its parameter
\* event in the graph.
C32_Witness ==
    /\ pc = "dsps"
    /\ started
    /\ callback_count = 2
    /\ Len(drained_commands) = 3
    /\ drained_commands[1] = [command |-> AddDspCommand(1), callback |-> 1]
    /\ drained_commands[2].command.kind = "ParameterValueChange"
    /\ drained_commands[2].callback = 1
    /\ drained_commands[3] = [command |-> StartCommand, callback |-> 2]
    /\ graph_nodes = {1}
    /\ Len(dsp_parameters[1]) = 1
    /\ topological_sort = <<1>>
    /\ Len(chunks) = 1


=============================================================================
